---------------------------- MODULE Spec2Model ----------------------------
(***************************************************************************)
(* The relay engine of the mesh node (nrf/src/packet_relay.rs): the relay  *)
(* state (pending map, recent queue, duty-cycle tracker, statistics), the  *)
(* relay task's loop and the public functions that take the relay lock.    *)
(* The radio task of main (nrf/src/main.rs): its receive loop, the three    *)
(* phases a frame goes through and the packet bus it publishes on.  The     *)
(* relay's subscription to the bus is an input of the relay loop.           *)
(*                                                                         *)
(* Time is the millisecond clock of embassy_time::Instant.  Node numbers   *)
(* are u32 values written as <<high 16 bits, low 16 bits>>; only equality  *)
(* between node numbers is ever computed by the relay.                     *)
(***************************************************************************)
EXTENDS Integers, Sequences, FiniteSets, TLC

VARIABLES
    now,        \* Instant::now(), milliseconds since boot
    pc,         \* where the relay task is: "boot", "wait", "maint", "tx"
    pending,    \* RelayState.pending_packets, in the map's iteration order
    recent,     \* RelayState.recent_packets, oldest first
    duty,       \* RelayState.duty_cycle
    stats,      \* RelayState.stats
    inflight,   \* the packet handed to transmit_packet while the lock is released
    rx,         \* the message the loop iteration took from the bus, with should_relay's result
    lastq,      \* history: the packet most recently accepted by queue_packet
    airlog,     \* history: the transmissions recorded by the duty-cycle tracker
    radio,      \* the radio task of main: where it is, frames taken, the last rx result
    bus,        \* PACKET_CHANNEL: the packets published and not yet pushed out
    fwd,        \* packet_forwarder: the await it is parked in and its locals
    usb,        \* history: the FromRadio messages written to the USB serial port
    nodes,      \* NODE_DATABASE: the node numbers held, in iteration order
    db_guard,   \* the task holding the guard of NODE_DATABASE, if any
    proc,       \* packet_processor_task: the source of the packet it waits to record
    packet_id_counter,  \* PACKET_ID_COUNTER
    sensors,    \* Sensors.sensors: the devices registered, in order of registration
    idx,        \* Sensors.idx
    metrics     \* history: the outcomes of the calls of Sensors::get_metrics

vars == <<now, pc, pending, recent, duty, stats, inflight, rx, lastq, airlog, radio, bus,
          fwd, usb, nodes, db_guard, proc, packet_id_counter, sensors, idx, metrics>>

\* The variables of the radio task and of the packet bus.
rxvars == <<radio, bus>>

\* The variables of the USB serial task, the packet processor and the node
\* database.
hostvars == <<fwd, usb, nodes, db_guard, proc, packet_id_counter>>

\* The variables of the telemetry crate's list of sensors.
telemetryvars == <<sensors, idx, metrics>>

---------------------------------------------------------------------------
(* Program constants *)

MAX_PENDING_PACKETS == 16
NUM_RELIABLE_RETX == 3
NUM_ACK_RETX == 4
NUM_TEXT_RETX == 2
MIN_HOP_DELAY_MS == 200
MAX_HOP_DELAY_MS == 300
HOP_PENALTY_MS == 50
RETX_INTERVALS == <<5000, 15000, 30000, 60000, 120000>>
CHANNEL_BUSY_BASE_DELAY_MS == 100
MAX_CHANNEL_BUSY_RETRIES == 8
MAX_PACKET_AGE_MS == 60000
CHANNEL_UTIL_LIMIT == 10
PERIOD_LENGTH_SECS == 3600
RECENT_QUEUE_N == 32
PRIORITY_DEFAULT == 64
PRIORITY_ACK == 120
PRIORITY_MAX == 127
PACKET_AIRTIME_MS == 250
TX_SIM_MS == 100
MAINTENANCE_MS == 1000
LCG_MUL == 1103515245
LCG_INC == 12345
RX_BOOST_ENABLED == TRUE

OUR_NODE_ID == <<57005, 48879>>      \* 0xDEADBEEF
NODE_ZERO == <<0, 0>>                \* 0x00000000
NODE_BROADCAST == <<65535, 65535>>   \* 0xFFFFFFFF

---------------------------------------------------------------------------
(* Sequence helpers *)

Min(a, b) == IF a < b THEN a ELSE b

\* The least index of a pending entry keyed by id, 0 when there is none.
IndexOf(pend, id) ==
    IF \E i \in 1..Len(pend) : pend[i].packet_id = id
    THEN CHOOSE i \in 1..Len(pend) :
            /\ pend[i].packet_id = id
            /\ \A j \in 1..(i - 1) : pend[j].packet_id # id
    ELSE 0

contains_key(pend, id) == IndexOf(pend, id) # 0

\* heapless IndexMap::remove is swap_remove: the last entry takes the removed
\* entry's place.
MapRemove(pend, id) ==
    LET i == IndexOf(pend, id)
        n == Len(pend)
    IN IF i = 0 THEN pend
       ELSE [k \in 1..(n - 1) |-> IF k = i THEN pend[n] ELSE pend[k]]

\* heapless IndexMap::insert: an existing key keeps its place and has its value
\* replaced; a new key is appended; a new key into a full map is refused.
MapInsertOk(pend, id) == contains_key(pend, id) \/ Len(pend) < MAX_PENDING_PACKETS

MapInsert(pend, entry) ==
    LET i == IndexOf(pend, entry.packet_id)
    IN IF i # 0 THEN [pend EXCEPT ![i] = entry] ELSE Append(pend, entry)

PendingIds(pend) == {pend[i].packet_id : i \in 1..Len(pend)}

---------------------------------------------------------------------------
(* RelayStats *)

StatsDefault ==
    [packets_received |-> 0, packets_queued |-> 0, packets_transmitted |-> 0,
     packets_dropped |-> 0, packets_expired |-> 0, channel_busy_events |-> 0,
     duty_cycle_blocks |-> 0, implicit_acks |-> 0, loop_prevention_drops |-> 0,
     retransmissions |-> 0]

---------------------------------------------------------------------------
(* DutyCycleTracker *)

DutyCycleTrackerNew(t) == [total_airtime_ms |-> 0, period_start |-> t]

PeriodExpired(d, t) == (t - d.period_start) >= PERIOD_LENGTH_SECS * 1000

\* can_transmit with a strict comparison against the utilization limit.
can_transmit_strict(d, packet_airtime_ms, t) ==
    IF PeriodExpired(d, t) THEN TRUE
    ELSE ((d.total_airtime_ms + packet_airtime_ms) * 100) \div (PERIOD_LENGTH_SECS * 1000)
            < CHANNEL_UTIL_LIMIT

can_transmit(d, packet_airtime_ms, t) ==
    IF PeriodExpired(d, t) THEN TRUE
    ELSE ((d.total_airtime_ms + packet_airtime_ms) * 100) \div (PERIOD_LENGTH_SECS * 1000)
            <= CHANNEL_UTIL_LIMIT

\* record_transmission that never restarts the measurement period.
record_transmission_no_reset(d, packet_airtime_ms, t) ==
    [d EXCEPT !.total_airtime_ms = @ + packet_airtime_ms]

record_transmission(d, packet_airtime_ms, t) ==
    IF PeriodExpired(d, t)
    THEN [total_airtime_ms |-> packet_airtime_ms, period_start |-> t]
    ELSE [d EXCEPT !.total_airtime_ms = @ + packet_airtime_ms]

get_utilization_percent(d, t) ==
    IF PeriodExpired(d, t) THEN 0
    ELSE Min((d.total_airtime_ms * 100) \div (PERIOD_LENGTH_SECS * 1000), 100)

---------------------------------------------------------------------------
(* Packet classification *)

RelayedPorts == {"RoutingApp", "TextMessageApp", "NodeinfoApp", "PositionApp", "TelemetryApp"}

get_packet_priority(p) ==
    IF p.port = "RoutingApp" THEN PRIORITY_ACK ELSE PRIORITY_DEFAULT

packet_wants_ack(p) == p.port = "RoutingApp"

\* get_max_retransmissions without the early return for packets that want no ACK.
get_max_retransmissions_by_port(p, wants_ack) ==
    IF p.port = "RoutingApp" THEN NUM_ACK_RETX
    ELSE IF p.port = "TextMessageApp" THEN NUM_TEXT_RETX
    ELSE NUM_RELIABLE_RETX

get_max_retransmissions(p, wants_ack) ==
    IF ~wants_ack THEN 0
    ELSE IF p.port = "RoutingApp" THEN NUM_ACK_RETX
    ELSE IF p.port = "TextMessageApp" THEN NUM_TEXT_RETX
    ELSE NUM_RELIABLE_RETX

calculate_packet_airtime(p) == PACKET_AIRTIME_MS

---------------------------------------------------------------------------
(* Admission *)

is_recent_packet(rec, id) == \E i \in 1..Len(rec) : rec[i] = id

\* add_recent_packet that only makes room and never records the id.
add_recent_packet_forget(rec, id) ==
    IF Len(rec) = RECENT_QUEUE_N - 1 THEN Tail(rec) ELSE rec

\* add_recent_packet that never makes room.
add_recent_packet_keep_all(rec, id) == Append(rec, id)

add_recent_packet(rec, id) ==
    Append(IF Len(rec) = RECENT_QUEUE_N - 1 THEN Tail(rec) ELSE rec, id)

\* validate_packet without the comparison of hop_limit with hop_start.
validate_packet_no_hop_order(p) ==
    IF p.packet_id = 0 THEN "Err(Packet ID cannot be zero)"
    ELSE IF p.hop_start > 7 THEN "Err(Hop start too high)"
    ELSE IF p.source = NODE_ZERO \/ p.source = NODE_BROADCAST
         THEN "Err(Invalid source node ID)"
    ELSE "Ok"

validate_packet(p) ==
    IF p.packet_id = 0 THEN "Err(Packet ID cannot be zero)"
    ELSE IF p.hop_start > 7 THEN "Err(Hop start too high)"
    ELSE IF p.hop_limit > p.hop_start THEN "Err(Hop limit cannot exceed hop start)"
    ELSE IF p.source = NODE_ZERO \/ p.source = NODE_BROADCAST
         THEN "Err(Invalid source node ID)"
    ELSE "Ok"

\* should_relay without the test for packets that originate from this node.
should_relay_no_own(p, rec, st) ==
    LET s1 == [st EXCEPT !.packets_received = @ + 1]
        v  == validate_packet(p)
    IN IF v # "Ok" THEN [ret |-> v, stats |-> s1]
       ELSE IF is_recent_packet(rec, p.packet_id)
            THEN [ret |-> "Ok(false)",
                  stats |-> [s1 EXCEPT !.loop_prevention_drops = @ + 1]]
       ELSE IF p.hop_limit = 0 THEN [ret |-> "Ok(false)", stats |-> s1]
       ELSE IF p.destination = OUR_NODE_ID THEN [ret |-> "Ok(false)", stats |-> s1]
       ELSE IF p.port \in RelayedPorts THEN [ret |-> "Ok(true)", stats |-> s1]
       ELSE [ret |-> "Ok(false)", stats |-> s1]

\* should_relay without the hop-limit test.
should_relay_no_hop(p, rec, st) ==
    LET s1 == [st EXCEPT !.packets_received = @ + 1]
        v  == validate_packet(p)
    IN IF v # "Ok" THEN [ret |-> v, stats |-> s1]
       ELSE IF p.source = OUR_NODE_ID THEN [ret |-> "Ok(false)", stats |-> s1]
       ELSE IF is_recent_packet(rec, p.packet_id)
            THEN [ret |-> "Ok(false)",
                  stats |-> [s1 EXCEPT !.loop_prevention_drops = @ + 1]]
       ELSE IF p.destination = OUR_NODE_ID THEN [ret |-> "Ok(false)", stats |-> s1]
       ELSE IF p.port \in RelayedPorts THEN [ret |-> "Ok(true)", stats |-> s1]
       ELSE [ret |-> "Ok(false)", stats |-> s1]

\* should_relay with the hop-limit test moved before the duplicate test.
should_relay_hop_first(p, rec, st) ==
    LET s1 == [st EXCEPT !.packets_received = @ + 1]
        v  == validate_packet(p)
    IN IF v # "Ok" THEN [ret |-> v, stats |-> s1]
       ELSE IF p.source = OUR_NODE_ID THEN [ret |-> "Ok(false)", stats |-> s1]
       ELSE IF p.hop_limit = 0 THEN [ret |-> "Ok(false)", stats |-> s1]
       ELSE IF is_recent_packet(rec, p.packet_id)
            THEN [ret |-> "Ok(false)",
                  stats |-> [s1 EXCEPT !.loop_prevention_drops = @ + 1]]
       ELSE IF p.destination = OUR_NODE_ID THEN [ret |-> "Ok(false)", stats |-> s1]
       ELSE IF p.port \in RelayedPorts THEN [ret |-> "Ok(true)", stats |-> s1]
       ELSE [ret |-> "Ok(false)", stats |-> s1]

\* should_relay that counts a packet as received only once it has been validated.
should_relay_count_valid(p, rec, st) ==
    LET s1 == [st EXCEPT !.packets_received = @ + 1]
        v  == validate_packet(p)
    IN IF v # "Ok" THEN [ret |-> v, stats |-> st]
       ELSE IF p.source = OUR_NODE_ID THEN [ret |-> "Ok(false)", stats |-> s1]
       ELSE IF is_recent_packet(rec, p.packet_id)
            THEN [ret |-> "Ok(false)",
                  stats |-> [s1 EXCEPT !.loop_prevention_drops = @ + 1]]
       ELSE IF p.hop_limit = 0 THEN [ret |-> "Ok(false)", stats |-> s1]
       ELSE IF p.destination = OUR_NODE_ID THEN [ret |-> "Ok(false)", stats |-> s1]
       ELSE IF p.port \in RelayedPorts THEN [ret |-> "Ok(true)", stats |-> s1]
       ELSE [ret |-> "Ok(false)", stats |-> s1]

\* should_relay: its return value and the statistics it leaves.
should_relay(p, rec, st) ==
    LET s1 == [st EXCEPT !.packets_received = @ + 1]
        v  == validate_packet(p)
    IN IF v # "Ok" THEN [ret |-> v, stats |-> s1]
       ELSE IF p.source = OUR_NODE_ID THEN [ret |-> "Ok(false)", stats |-> s1]
       ELSE IF is_recent_packet(rec, p.packet_id)
            THEN [ret |-> "Ok(false)",
                  stats |-> [s1 EXCEPT !.loop_prevention_drops = @ + 1]]
       ELSE IF p.hop_limit = 0 THEN [ret |-> "Ok(false)", stats |-> s1]
       ELSE IF p.destination = OUR_NODE_ID THEN [ret |-> "Ok(false)", stats |-> s1]
       ELSE IF p.port \in RelayedPorts THEN [ret |-> "Ok(true)", stats |-> s1]
       ELSE [ret |-> "Ok(false)", stats |-> s1]

---------------------------------------------------------------------------
(* Scheduling delay *)

\* priority_delay_multiplier is 0.5 + (127 - priority)/127 * 0.5 = (254 - priority)/254;
\* for every priority in 0..127 and every base delay the code can form, the f32
\* product truncated to u64 equals the integer quotient below.
\* The priority multiplier read the wrong way round: (127 + priority)/254.
AdjustedDelay_inverted(total_ms, priority) == (total_ms * (127 + priority)) \div 254

AdjustedDelay(total_ms, priority) == (total_ms * (254 - priority)) \div 254

HopsTaken(p) == IF p.hop_start >= p.hop_limit THEN p.hop_start - p.hop_limit ELSE 0

\* (time_seed * 1103515245 + 12345) % m in u64 arithmetic, which does not wrap
\* for any clock value below 2^33 ms; reduced modulo m factor by factor.
Jitter(time_seed, m) == (((time_seed % m) * (LCG_MUL % m)) + LCG_INC) % m

calculate_relay_delay(p, priority, t) ==
    LET base_delay == IF RX_BOOST_ENABLED THEN MAX_HOP_DELAY_MS ELSE MIN_HOP_DELAY_MS
        hop_penalty == HopsTaken(p) * HOP_PENALTY_MS
        adjusted_delay == AdjustedDelay(base_delay + hop_penalty, priority)
    IN adjusted_delay + Jitter(t, 2 * adjusted_delay + 1)

---------------------------------------------------------------------------
(* Operations on the relay state *)

\* queue_packet: the entry it builds, then the insertion into the pending map.
NewPending(p, wants_ack, priority, t) ==
    [packet_id |-> p.packet_id,
     packet |-> p,
     queued_at |-> t,
     next_tx_time |-> t + calculate_relay_delay(p, priority, t),
     max_retransmissions |-> get_max_retransmissions(p, wants_ack),
     retry_count |-> 0,
     channel_busy_count |-> 0,
     wants_ack |-> wants_ack,
     priority |-> priority]

\* queue_packet with the id marked as recently seen before the insertion is tried.
queue_packet_mark_first(pend, rec, st, p, wants_ack, priority, t) ==
    IF ~MapInsertOk(pend, p.packet_id)
    THEN [pending |-> pend, recent |-> add_recent_packet(rec, p.packet_id),
          stats |-> [st EXCEPT !.packets_dropped = @ + 1], ret |-> "Err(QueueFull)"]
    ELSE [pending |-> MapInsert(pend, NewPending(p, wants_ack, priority, t)),
          recent |-> add_recent_packet(rec, p.packet_id),
          stats |-> [st EXCEPT !.packets_queued = @ + 1], ret |-> "Ok"]

queue_packet(pend, rec, st, p, wants_ack, priority, t) ==
    IF ~MapInsertOk(pend, p.packet_id)
    THEN [pending |-> pend, recent |-> rec,
          stats |-> [st EXCEPT !.packets_dropped = @ + 1], ret |-> "Err(QueueFull)"]
    ELSE [pending |-> MapInsert(pend, NewPending(p, wants_ack, priority, t)),
          recent |-> add_recent_packet(rec, p.packet_id),
          stats |-> [st EXCEPT !.packets_queued = @ + 1], ret |-> "Ok"]

\* handle_implicit_ack that also takes the acknowledged packet back out of the
\* packets_queued count.
handle_implicit_ack_unqueue(pend, st, p) ==
    IF p.source = OUR_NODE_ID /\ contains_key(pend, p.packet_id)
    THEN [pending |-> MapRemove(pend, p.packet_id),
          stats |-> [st EXCEPT !.implicit_acks = @ + 1, !.packets_queued = @ - 1]]
    ELSE [pending |-> pend, stats |-> st]

handle_implicit_ack(pend, st, p) ==
    IF p.source = OUR_NODE_ID /\ contains_key(pend, p.packet_id)
    THEN [pending |-> MapRemove(pend, p.packet_id),
          stats |-> [st EXCEPT !.implicit_acks = @ + 1]]
    ELSE [pending |-> pend, stats |-> st]

IsExpired(e, t) == (t - e.queued_at) > MAX_PACKET_AGE_MS

\* The collection of expired ids restricted to the entries that have never
\* been transmitted and never met a busy channel.
ExpiredIds_untried(pend, t) ==
    LET Old(e) == IsExpired(e, t) /\ e.retry_count = 0 /\ e.channel_busy_count = 0
    IN SelectSeq(pend, Old)

\* cleanup_expired_packets: the ids are collected in iteration order, then
\* removed one after the other.
ExpiredIds(pend, t) ==
    LET Old(e) == IsExpired(e, t)
    IN SelectSeq(pend, Old)

RECURSIVE RemoveAll(_, _)
RemoveAll(pend, to_remove) ==
    IF to_remove = <<>> THEN pend
    ELSE RemoveAll(MapRemove(pend, Head(to_remove).packet_id), Tail(to_remove))

cleanup_expired_packets(pend, st, t) ==
    LET to_remove == ExpiredIds(pend, t)
    IN [pending |-> RemoveAll(pend, to_remove),
        stats |-> [st EXCEPT !.packets_expired = @ + Len(to_remove)]]

\* get_next_ready_packet: the index of the first entry, in iteration order,
\* whose next_tx_time has come; 0 when there is none.
\* get_next_ready_packet that takes an entry only once its time is behind.
get_next_ready_packet_strict(pend, t) ==
    IF \E i \in 1..Len(pend) : t > pend[i].next_tx_time
    THEN CHOOSE i \in 1..Len(pend) :
            /\ t > pend[i].next_tx_time
            /\ \A j \in 1..(i - 1) : t <= pend[j].next_tx_time
    ELSE 0

get_next_ready_packet(pend, t) ==
    IF \E i \in 1..Len(pend) : t >= pend[i].next_tx_time
    THEN CHOOSE i \in 1..Len(pend) :
            /\ t >= pend[i].next_tx_time
            /\ \A j \in 1..(i - 1) : t < pend[j].next_tx_time
    ELSE 0

\* has_retransmissions_left with the bound included.
has_retransmissions_left_inclusive(e) == e.retry_count <= e.max_retransmissions

has_retransmissions_left(e) == e.retry_count < e.max_retransmissions

RetryInterval(retry_count) ==
    IF retry_count <= Len(RETX_INTERVALS) THEN RETX_INTERVALS[retry_count]
    ELSE RETX_INTERVALS[Len(RETX_INTERVALS)]

handle_transmitted_packet(pend, st, id, t) ==
    LET i == IndexOf(pend, id)
    IN IF i = 0 THEN [pending |-> pend, stats |-> st]
       ELSE IF has_retransmissions_left(pend[i])
            THEN [pending |-> [pend EXCEPT ![i].retry_count = @ + 1,
                                           ![i].next_tx_time =
                                               t + RetryInterval(pend[i].retry_count + 1)],
                  stats |-> [st EXCEPT !.packets_transmitted = @ + 1,
                                       !.retransmissions = @ + 1]]
            ELSE [pending |-> MapRemove(pend, id),
                  stats |-> [st EXCEPT !.packets_transmitted = @ + 1]]

\* handle_channel_busy that gives up when the count reaches the maximum, not
\* when it exceeds it.
handle_channel_busy_early(pend, st, id, t) ==
    LET i == IndexOf(pend, id)
    IN IF i = 0 THEN [pending |-> pend, stats |-> st]
       ELSE LET count == pend[i].channel_busy_count + 1
            IN IF count < MAX_CHANNEL_BUSY_RETRIES
               THEN [pending |-> [pend EXCEPT ![i].channel_busy_count = count,
                                              ![i].next_tx_time =
                                                  t + CHANNEL_BUSY_BASE_DELAY_MS * (2 ^ count)],
                     stats |-> [st EXCEPT !.channel_busy_events = @ + 1]]
               ELSE [pending |-> MapRemove(pend, id),
                     stats |-> [st EXCEPT !.channel_busy_events = @ + 1,
                                          !.packets_dropped = @ + 1]]

handle_channel_busy(pend, st, id, t) ==
    LET i == IndexOf(pend, id)
    IN IF i = 0 THEN [pending |-> pend, stats |-> st]
       ELSE LET count == pend[i].channel_busy_count + 1
            IN IF count <= MAX_CHANNEL_BUSY_RETRIES
               THEN [pending |-> [pend EXCEPT ![i].channel_busy_count = count,
                                              ![i].next_tx_time =
                                                  t + CHANNEL_BUSY_BASE_DELAY_MS * (2 ^ count)],
                     stats |-> [st EXCEPT !.channel_busy_events = @ + 1]]
               ELSE [pending |-> MapRemove(pend, id),
                     stats |-> [st EXCEPT !.channel_busy_events = @ + 1,
                                          !.packets_dropped = @ + 1]]

\* The value trigger_retransmission returns: true when RELAY_STATE holds a
\* state and the id has a pending entry.
trigger_retransmission_returns(initialized, pend, id) ==
    initialized /\ contains_key(pend, id)

\* trigger_retransmission that starts the entry's retries over.
trigger_retransmission_restart(pend, id, t) ==
    LET i == IndexOf(pend, id)
    IN IF i = 0 THEN pend
       ELSE [pend EXCEPT ![i].next_tx_time = t, ![i].retry_count = 0]

\* trigger_retransmission that takes the entry out of the map instead of
\* making it ready.
trigger_retransmission_take(pend, id, t) == MapRemove(pend, id)

trigger_retransmission(pend, id, t) ==
    LET i == IndexOf(pend, id)
    IN IF i = 0 THEN pend ELSE [pend EXCEPT ![i].next_tx_time = t]

---------------------------------------------------------------------------
(* The relay task's loop body *)

\* The message branch with the implicit-ACK handler run only once admission has
\* found the packet to be our own (valid, source = our_node_id).
process_packet_ack_in_admission(pend, rec, st, p, t) ==
    LET r == should_relay(p, rec, st)
        own == validate_packet(p) = "Ok" /\ p.source = OUR_NODE_ID
        a == IF own THEN handle_implicit_ack(pend, r.stats, p)
             ELSE [pending |-> pend, stats |-> r.stats]
    IN IF r.ret = "Ok(true)"
       THEN LET q == queue_packet(a.pending, rec, a.stats, p,
                                  packet_wants_ack(p), get_packet_priority(p), t)
            IN [pending |-> q.pending, recent |-> q.recent, stats |-> q.stats,
                ret |-> r.ret, qret |-> q.ret]
       ELSE [pending |-> a.pending, recent |-> rec, stats |-> a.stats,
             ret |-> r.ret, qret |-> "none"]

\* One message taken from the bus: implicit ACK, admission, queueing.
process_packet(pend, rec, st, p, t) ==
    LET a == handle_implicit_ack(pend, st, p)
        r == should_relay(p, rec, a.stats)
    IN IF r.ret = "Ok(true)"
       THEN LET q == queue_packet(a.pending, rec, r.stats, p,
                                  packet_wants_ack(p), get_packet_priority(p), t)
            IN [pending |-> q.pending, recent |-> q.recent, stats |-> q.stats,
                ret |-> r.ret, qret |-> q.ret]
       ELSE [pending |-> a.pending, recent |-> rec, stats |-> r.stats,
             ret |-> r.ret, qret |-> "none"]

\* The transmission block with a packet refused by the duty-cycle gate removed
\* and counted as dropped.
tx_section_drop_on_block(pend, d, st, t, busy) ==
    LET c == cleanup_expired_packets(pend, st, t)
        i == get_next_ready_packet(c.pending, t)
    IN IF i = 0 THEN [pending |-> c.pending, stats |-> c.stats, inflight |-> <<>>]
       ELSE LET e == c.pending[i]
                packet_airtime_ms == calculate_packet_airtime(e.packet)
            IN IF ~can_transmit(d, packet_airtime_ms, t)
               THEN [pending |-> MapRemove(c.pending, e.packet_id),
                     stats |-> [c.stats EXCEPT !.duty_cycle_blocks = @ + 1,
                                               !.packets_dropped = @ + 1],
                     inflight |-> <<>>]
               ELSE IF ~busy
               THEN [pending |-> c.pending, stats |-> c.stats,
                     inflight |-> <<[packet_id |-> e.packet_id, packet |-> e.packet,
                                     airtime |-> packet_airtime_ms]>>]
               ELSE LET b == handle_channel_busy(c.pending, c.stats, e.packet_id, t)
                    IN [pending |-> b.pending, stats |-> b.stats, inflight |-> <<>>]

\* "Handle pending transmissions": the expiration sweep, the choice of a ready
\* packet, the duty-cycle gate and the channel check, up to the point where the
\* lock is dropped for the transmission.  busy is what is_channel_busy returns.
tx_section(pend, d, st, t, busy) ==
    LET c == cleanup_expired_packets(pend, st, t)
        i == get_next_ready_packet(c.pending, t)
    IN IF i = 0 THEN [pending |-> c.pending, stats |-> c.stats, inflight |-> <<>>]
       ELSE LET e == c.pending[i]
                packet_airtime_ms == calculate_packet_airtime(e.packet)
            IN IF ~can_transmit(d, packet_airtime_ms, t)
               THEN [pending |-> c.pending,
                     stats |-> [c.stats EXCEPT !.duty_cycle_blocks = @ + 1],
                     inflight |-> <<>>]
               ELSE IF ~busy
               THEN [pending |-> c.pending, stats |-> c.stats,
                     inflight |-> <<[packet_id |-> e.packet_id, packet |-> e.packet,
                                     airtime |-> packet_airtime_ms]>>]
               ELSE LET b == handle_channel_busy(c.pending, c.stats, e.packet_id, t)
                    IN [pending |-> b.pending, stats |-> b.stats, inflight |-> <<>>]

\* The outcome of transmit_packet with the airtime recorded whatever the result.
tx_outcome_always_records(pend, d, st, f, t, ok) ==
    IF ok
    THEN LET h == handle_transmitted_packet(pend, st, f.packet_id, t)
         IN [pending |-> h.pending, stats |-> h.stats,
             duty |-> record_transmission(d, f.airtime, t)]
    ELSE [pending |-> MapRemove(pend, f.packet_id),
          stats |-> [st EXCEPT !.packets_dropped = @ + 1],
          duty |-> record_transmission(d, f.airtime, t)]

\* The outcome of transmit_packet, recorded after the lock is taken again.
tx_outcome(pend, d, st, f, t, ok) ==
    IF ok
    THEN LET h == handle_transmitted_packet(pend, st, f.packet_id, t)
         IN [pending |-> h.pending, stats |-> h.stats,
             duty |-> record_transmission(d, f.airtime, t)]
    ELSE [pending |-> MapRemove(pend, f.packet_id),
          stats |-> [st EXCEPT !.packets_dropped = @ + 1],
          duty |-> d]

\* is_channel_busy is a placeholder that returns false; where the PHY's channel
\* activity detection is taken as wired in (E.cad), its report is an input.
is_channel_busy(E) == IF E.cad THEN BOOLEAN ELSE {FALSE}

\* transmit_packet is a placeholder that returns Ok(()); where the PHY transmit
\* primitive is taken as fallible (E.txfail), its result is an input.
transmit_packet(E) == IF E.txfail THEN BOOLEAN ELSE {TRUE}

---------------------------------------------------------------------------
(* The radio task of main *)

\* An Option or a Result is a sequence: <<>> for None or Err, <<v>> for
\* Some(v) or Ok(v).  A frame is what lora.rx wrote into the receive buffer:
\* its length, the hop fields of its flags byte (byte 12 of the header), its
\* packet id and what its payload decodes to under the channel key
\* ("malformed" when it does not decode).

PACKET_CHANNEL_CAP == 8
HEADER_LEN == 16
FLAGS_OFFSET == 12

\* The task as it enters its receive loop, before the first call of lora.rx;
\* last is the frame of the latest successful rx.
RadioStart == [pc |-> "rx", frames |-> 0, last |-> <<>>]

\* The hop fields in the first 16 bytes of the receive buffer: the buffer is
\* zero-filled before each rx, so a frame that ends before the flags byte
\* leaves them 0.
BufferHops(f) ==
    IF f.len > FLAGS_OFFSET THEN [hop_limit |-> f.hop_limit, hop_start |-> f.hop_start]
    ELSE [hop_limit |-> 0, hop_start |-> 0]

\* Header::from_bytes on n bytes whose flags byte holds the hop fields h.
Header_from_bytes(n, h) ==
    IF n < HEADER_LEN \/ h.hop_limit > h.hop_start THEN <<>> ELSE <<h>>

\* ChannelKey::from_bytes(material, len) for the one-byte key of main.
ChannelKey_from_bytes(len) == IF len \in {1, 16, 32} THEN <<"key">> ELSE <<>>

\* Packet::<Encrypted>::from_bytes on the first f.len bytes of the buffer.
Packet_from_bytes(f) ==
    IF Header_from_bytes(f.len, [hop_limit |-> f.hop_limit, hop_start |-> f.hop_start]) = <<>>
    THEN <<>>
    ELSE <<f>>

\* Packet::<Encrypted>::decrypt: the stream cipher applied in place.
decrypt(enc, key) == <<enc>>

\* Packet::<Decrypted>::decode.
decode(dec) ==
    IF dec.payload = "malformed" THEN <<>>
    ELSE <<[packet_id |-> dec.id, hop_limit |-> dec.hop_limit,
            hop_start |-> dec.hop_start, port |-> dec.payload]>>

\* PubSubChannel::publish_immediate: a full queue gives up its oldest message.
publish_immediate(b, msg) ==
    Append(IF Len(b) = PACKET_CHANNEL_CAP THEN Tail(b) ELSE b, msg)

\* handle_received_packet that publishes as soon as the frame is decrypted.
handle_received_packet_undecoded(b, f) ==
    LET key == ChannelKey_from_bytes(1)
        enc == Packet_from_bytes(f)
    IN IF key = <<>> THEN b
       ELSE IF enc = <<>> THEN b
       ELSE LET dec == decrypt(enc[1], key[1])
            IN IF dec = <<>> THEN b
               ELSE publish_immediate(b,
                        [pkt |-> [packet_id |-> f.id, hop_limit |-> f.hop_limit,
                                  hop_start |-> f.hop_start, port |-> f.payload],
                         frame |-> f])

\* handle_received_packet: the bus after the frame went through the three
\* phases.  A bus entry keeps, next to the decoded packet, the frame it came
\* from (history).
handle_received_packet(b, f) ==
    LET key == ChannelKey_from_bytes(1)
        enc == Packet_from_bytes(f)
    IN IF key = <<>> THEN b
       ELSE IF enc = <<>> THEN b
       ELSE LET dec == decrypt(enc[1], key[1])
            IN IF dec = <<>> THEN b
               ELSE LET decoded == decode(dec[1])
                    IN IF decoded = <<>> THEN b
                       ELSE publish_immediate(b, [pkt |-> decoded[1], frame |-> f])

---------------------------------------------------------------------------
(* The USB serial task, the packet processor and the node database (main.rs) *)

MY_NODE_NUM == OUR_NODE_ID           \* 0xDEADBEEF, the node number main.rs reports

\* packet_forwarder parked in the select of its loop, with no request taken.
\* at is the await the task is parked in; cfg the id of the request being
\* answered; todo the nodes the peer loop has still to write, the one being
\* written first; start, snap and done are history: the length of the USB log
\* when the request was taken, the database the peer loop iterated over, and
\* whether the last answer ran to its end.
ForwarderStart ==
    [at |-> "select", cfg |-> 0, todo |-> <<>>, start |-> 0, snap |-> <<>>, done |-> FALSE]

\* The state of the three when main has initialised the database and spawned
\* the tasks.
HostStart ==
    /\ fwd = ForwarderStart
    /\ usb = <<>>
    /\ nodes = <<>>
    /\ db_guard = <<>>
    /\ proc = <<>>
    /\ packet_id_counter = 1

\* Sensors::new: no sensor registered, the index at 0.
SensorsNew ==
    /\ sensors = <<>>
    /\ idx = 0
    /\ metrics = <<>>

\* NodeDatabase::add_or_update_node_from_packet: the database is keyed by node
\* number; a known node is updated in place, an unknown one is inserted.
add_or_update_node_from_packet(db, source) ==
    IF \E i \in 1..Len(db) : db[i] = source THEN db ELSE Append(db, source)

\* NodeDatabase::get_node.
get_node(db, num) == IF \E i \in 1..Len(db) : db[i] = num THEN <<num>> ELSE <<>>

PACKET_ID_WRAP == 2147483647         \* 0x7FFFFFFF

\* get_next_packet_id with the counter wrapping to 0.
get_next_packet_id_wrap_zero(counter) == IF counter >= PACKET_ID_WRAP THEN 0 ELSE counter + 1

\* get_next_packet_id: the counter after one more id was handed out.
get_next_packet_id(counter) == IF counter >= PACKET_ID_WRAP THEN 1 ELSE counter + 1

\* A FromRadio message: what it carries, the node number of a NodeInfo, the id
\* of a ConfigComplete, and its packet id.
FromRadio(kind, num, arg, id) == [kind |-> kind, num |-> num, arg |-> arg, id |-> id]

\* The peer loop of the answer with no test on the node number.
peer_nodes_all(db) == db

\* The nodes the peer loop of the answer writes: all but our own.
peer_nodes(db) == SelectSeq(db, LAMBDA n : n # MY_NODE_NUM)

\* The message packet_forwarder is writing when parked at f.at; its packet id
\* is the one the last call of get_next_packet_id handed out.
writing(f, counter) ==
    LET id == IF counter = 1 THEN PACKET_ID_WRAP ELSE counter - 1
    IN  CASE f.at = "my"       -> FromRadio("MyNodeInfo", MY_NODE_NUM, 0, id)
          [] f.at = "own"      -> FromRadio("NodeInfo", MY_NODE_NUM, 0, id)
          [] f.at = "peer"     -> FromRadio("NodeInfo", f.todo[1], 0, id)
          [] f.at = "config"   -> FromRadio("Config", NODE_ZERO, 0, id)
          [] f.at = "module"   -> FromRadio("ModuleConfig", NODE_ZERO, 0, id)
          [] f.at = "channel"  -> FromRadio("Channel", NODE_ZERO, 0, id)
          [] f.at = "complete" -> FromRadio("ConfigComplete", NODE_ZERO, f.cfg, id)
          [] f.at = "update"   -> FromRadio("NodeInfo", f.todo[1], 0, id)
          [] f.at = "mesh"     -> FromRadio("MeshPacket", f.todo[1], 0, id)

\* Where the answer to a request-config goes on once the write it is parked in
\* has succeeded: the next await of packet_forwarder and the holder of the
\* database guard.  The peer loop runs under the guard taken by try_lock.
after_write(f, db, guard) ==
    CASE f.at = "my" -> [fwd |-> [f EXCEPT !.at = "own"], guard |-> guard]
      [] f.at = "own" ->
            IF guard = <<>> /\ peer_nodes(db) # <<>>
            THEN [fwd |-> [f EXCEPT !.at = "peer", !.todo = peer_nodes(db), !.snap = db],
                  guard |-> <<"packet_forwarder">>]
            ELSE [fwd |-> [f EXCEPT !.at = "config", !.snap = IF guard = <<>> THEN db ELSE <<>>],
                  guard |-> guard]
      [] f.at = "peer" ->
            IF Len(f.todo) > 1
            THEN [fwd |-> [f EXCEPT !.todo = Tail(f.todo)], guard |-> guard]
            ELSE [fwd |-> [f EXCEPT !.at = "config", !.todo = <<>>], guard |-> <<>>]
      [] f.at = "config"   -> [fwd |-> [f EXCEPT !.at = "module"], guard |-> guard]
      [] f.at = "module"   -> [fwd |-> [f EXCEPT !.at = "channel"], guard |-> guard]
      [] f.at = "channel"  -> [fwd |-> [f EXCEPT !.at = "complete"], guard |-> guard]
      [] f.at = "complete" -> [fwd |-> [f EXCEPT !.at = "select", !.done = TRUE], guard |-> guard]
      [] f.at = "update"   -> [fwd |-> [f EXCEPT !.at = "select", !.todo = <<>>], guard |-> <<>>]
      [] f.at = "mesh"     -> [fwd |-> [f EXCEPT !.at = "select", !.todo = <<>>], guard |-> guard]

---------------------------------------------------------------------------
(* Bounds of the model *)

MaxReceived == 2
HorizonMain == 1200

---------------------------------------------------------------------------
(* Actions.  E is the environment: the packets the bus can deliver (pkts),   *)
(* the times after which a message can end the loop's wait (dts), whether    *)
(* the PHY reports channel activity (cad) and transmit errors (txfail), the  *)
(* last clock value explored (horizon) and whether airlog is kept (trace).   *)

RelayInit ==
    /\ pc = "boot"
    /\ pc' = "wait"
    /\ pending' = <<>>
    /\ recent' = <<>>
    /\ duty' = DutyCycleTrackerNew(now)
    /\ stats' = StatsDefault
    /\ UNCHANGED <<now, inflight, rx, lastq, airlog>>
    /\ UNCHANGED rxvars
    /\ UNCHANGED hostvars
    /\ UNCHANGED telemetryvars

RelayMessage(E) ==
    /\ pc = "wait"
    /\ stats.packets_received < MaxReceived
    /\ \E p \in E.pkts, dt \in E.dts :
          /\ now + dt <= E.horizon
          /\ LET r == process_packet(pending, recent, stats, p, now + dt)
             IN /\ now' = now + dt
                /\ pending' = r.pending
                /\ recent' = r.recent
                /\ stats' = r.stats
                /\ rx' = <<[pkt |-> p, ret |-> r.ret, qret |-> r.qret]>>
                /\ lastq' = IF r.qret = "Ok" THEN <<p>> ELSE lastq
    /\ pc' = "maint"
    /\ UNCHANGED <<duty, inflight, airlog>>
    /\ UNCHANGED rxvars
    /\ UNCHANGED hostvars
    /\ UNCHANGED telemetryvars

RelayLagged(E) ==
    /\ pc = "wait"
    /\ \E dt \in E.dts :
          /\ now + dt <= E.horizon
          /\ now' = now + dt
    /\ UNCHANGED <<pc, pending, recent, duty, stats, inflight, rx, lastq, airlog>>
    /\ UNCHANGED rxvars
    /\ UNCHANGED hostvars
    /\ UNCHANGED telemetryvars

RelayTimer(E) ==
    /\ pc = "wait"
    /\ now + MAINTENANCE_MS <= E.horizon
    /\ now' = now + MAINTENANCE_MS
    /\ pc' = "maint"
    /\ UNCHANGED <<pending, recent, duty, stats, inflight, rx, lastq, airlog>>
    /\ UNCHANGED rxvars
    /\ UNCHANGED hostvars
    /\ UNCHANGED telemetryvars

Maintenance(E) ==
    /\ pc = "maint"
    /\ \E busy \in is_channel_busy(E) :
          LET r == tx_section(pending, duty, stats, now, busy)
          IN /\ pending' = r.pending
             /\ stats' = r.stats
             /\ inflight' = r.inflight
             /\ pc' = IF r.inflight = <<>> THEN "wait" ELSE "tx"
    /\ rx' = <<>>
    /\ UNCHANGED <<now, recent, duty, lastq, airlog>>
    /\ UNCHANGED rxvars
    /\ UNCHANGED hostvars
    /\ UNCHANGED telemetryvars

TxComplete(E) ==
    /\ pc = "tx"
    /\ now + TX_SIM_MS <= E.horizon
    /\ \E ok \in transmit_packet(E) :
          LET t == now + TX_SIM_MS
              r == tx_outcome(pending, duty, stats, inflight[1], t, ok)
          IN /\ now' = t
             /\ pending' = r.pending
             /\ stats' = r.stats
             /\ duty' = r.duty
             /\ airlog' = IF E.trace /\ ok
                          THEN Append(airlog, [t |-> t, ms |-> inflight[1].airtime])
                          ELSE airlog
    /\ pc' = "wait"
    /\ inflight' = <<>>
    /\ UNCHANGED <<recent, rx, lastq>>
    /\ UNCHANGED rxvars
    /\ UNCHANGED hostvars
    /\ UNCHANGED telemetryvars

\* The relay task keeping its guard on RELAY_STATE across transmit_packet.
guard_released_not_for_tx(at) == at = "wait"

\* The suspension points of the relay task at which it holds no guard on
\* RELAY_STATE: the select of the main loop, and transmit_packet, before which
\* the guard is dropped.  Everywhere else the task runs under its guard.
guard_released(at) == at \in {"wait", "tx"}

\* reset_relay_stats, called by another task while the relay task is suspended.
ResetRelayStats ==
    /\ guard_released(pc)
    /\ stats' = StatsDefault
    /\ UNCHANGED <<now, pc, pending, recent, duty, inflight, rx, lastq, airlog>>
    /\ UNCHANGED rxvars
    /\ UNCHANGED hostvars
    /\ UNCHANGED telemetryvars

\* trigger_retransmission, called by another task while the relay task is suspended.
TriggerRetransmission(E) ==
    /\ guard_released(pc)
    /\ \E p \in E.pkts :
          pending' = trigger_retransmission(pending, p.packet_id, now)
    /\ UNCHANGED <<now, pc, recent, duty, stats, inflight, rx, lastq, airlog>>
    /\ UNCHANGED rxvars
    /\ UNCHANGED hostvars
    /\ UNCHANGED telemetryvars

\* The relay task alone, and the relay task with the other tasks' calls.
RelayTask(E) ==
    \/ RelayMessage(E)
    \/ RelayLagged(E)
    \/ RelayTimer(E)
    \/ Maintenance(E)
    \/ TxComplete(E)

Running(E) ==
    \/ RelayTask(E)
    \/ ResetRelayStats
    \/ TriggerRetransmission(E)

---------------------------------------------------------------------------
(* The node from boot, with the placeholders as they are in the source *)

N1 == <<4386, 13124>>                \* 0x11223344

Packet(id, src, dst, hl, hs, port, wa) ==
    [packet_id |-> id, source |-> src, destination |-> dst, hop_limit |-> hl,
     hop_start |-> hs, port |-> port, want_ack |-> wa]

PktsMain ==
    {Packet(1, N1, NODE_BROADCAST, 3, 3, "TextMessageApp", FALSE),
     Packet(2, N1, NODE_BROADCAST, 2, 3, "RoutingApp", TRUE),
     Packet(1, OUR_NODE_ID, NODE_BROADCAST, 2, 3, "TextMessageApp", FALSE),
     Packet(2, OUR_NODE_ID, NODE_BROADCAST, 4, 3, "RoutingApp", TRUE),
     Packet(1, N1, NODE_BROADCAST, 0, 3, "TextMessageApp", FALSE),
     Packet(3, N1, NODE_BROADCAST, 0, 3, "PositionApp", FALSE),
     Packet(2, N1, OUR_NODE_ID, 3, 3, "RoutingApp", TRUE),
     Packet(3, N1, NODE_BROADCAST, 3, 3, "Unknown", FALSE),
     Packet(0, N1, NODE_BROADCAST, 3, 3, "TextMessageApp", FALSE),
     Packet(3, NODE_ZERO, NODE_BROADCAST, 3, 3, "TextMessageApp", FALSE)}

EnvMain ==
    [pkts |-> PktsMain, dts |-> {0, 700}, cad |-> FALSE, txfail |-> FALSE,
     horizon |-> HorizonMain, trace |-> FALSE]

Init ==
    /\ now = 0
    /\ pc = "boot"
    /\ pending = <<>>
    /\ recent = <<>>
    /\ duty = DutyCycleTrackerNew(0)
    /\ stats = StatsDefault
    /\ inflight = <<>>
    /\ rx = <<>>
    /\ lastq = <<>>
    /\ airlog = <<>>
    /\ radio = RadioStart
    /\ bus = <<>>
    /\ HostStart
    /\ SensorsNew

Next == RelayInit \/ Running(EnvMain)

Spec == Init /\ [][Next]_vars

---------------------------------------------------------------------------
(* Admission over the whole header space: every combination of the values   *)
(* that the admission rules distinguish.                                     *)

PktsAdmit ==
    {Packet(id, src, dst, h[1], h[2], port, FALSE) :
        id \in {0, 1},
        src \in {NODE_ZERO, NODE_BROADCAST, OUR_NODE_ID, N1},
        dst \in {OUR_NODE_ID, NODE_BROADCAST},
        h \in {<<3, 3>>, <<0, 3>>, <<4, 3>>, <<3, 8>>},
        port \in {"RoutingApp", "NodeinfoApp", "TracerouteApp"}}

HorizonAdmit == 1100

EnvAdmit ==
    [pkts |-> PktsAdmit, dts |-> {0}, cad |-> FALSE, txfail |-> FALSE,
     horizon |-> HorizonAdmit, trace |-> FALSE]

NextAdmit == RelayInit \/ Running(EnvAdmit)

SpecAdmit == Init /\ [][NextAdmit]_vars

---------------------------------------------------------------------------
(* Steps of the relay task, as seen in a pair of states *)

\* The loop iteration took a message from the bus and evaluated it.
MsgStep == pc = "wait" /\ pc' = "maint" /\ rx' # <<>>

\* The "handle pending transmissions" block ran.
MaintStep == pc = "maint" /\ pc' \in {"wait", "tx"}

\* transmit_packet returned and its outcome was recorded.
TxStep == pc = "tx" /\ pc' = "wait"

---------------------------------------------------------------------------
(* C1 *)

\* The admission rules in the order the specification lists them: the number
\* of the first rule that refuses p, 0 when none does.
FirstRule(p, rec) ==
    IF p.packet_id = 0 THEN 1
    ELSE IF p.hop_start > 7 \/ p.hop_limit > p.hop_start THEN 2
    ELSE IF p.source \in {NODE_ZERO, NODE_BROADCAST} THEN 3
    ELSE IF p.source = OUR_NODE_ID THEN 4
    ELSE IF \E i \in 1..Len(rec) : rec[i] = p.packet_id THEN 5
    ELSE IF p.hop_limit = 0 THEN 6
    ELSE IF p.destination = OUR_NODE_ID THEN 7
    ELSE IF p.port \notin {"RoutingApp", "TextMessageApp", "NodeinfoApp",
                           "PositionApp", "TelemetryApp"} THEN 8
    ELSE 0

RuleOutcome(k) ==
    IF k = 0 THEN {"Ok(true)"}
    ELSE IF k = 1 THEN {"Err(Packet ID cannot be zero)"}
    ELSE IF k = 2 THEN {"Err(Hop start too high)", "Err(Hop limit cannot exceed hop start)"}
    ELSE IF k = 3 THEN {"Err(Invalid source node ID)"}
    ELSE {"Ok(false)"}

\* C1: should_relay admits a packet exactly when no admission rule matches it,
\* and otherwise refuses it with the outcome of the first matching rule, in the
\* order id = 0, hop fields, reserved source, own source, recent id, hop limit
\* exhausted, addressed to us, port not relayed; only the duplicate rule counts
\* a loop-prevention drop.
C1_AdmissionOrder ==
    [][MsgStep =>
        LET p == rx'[1].pkt
            k == FirstRule(p, recent)
        IN /\ rx'[1].ret \in RuleOutcome(k)
           /\ (rx'[1].ret = "Ok(true)") <=> (k = 0)
           /\ stats'.packets_received = stats.packets_received + 1
           /\ stats'.loop_prevention_drops =
                 stats.loop_prevention_drops + (IF k = 5 THEN 1 ELSE 0)]_vars

\* A duplicate whose hop limit is also exhausted and whose port is not relayed
\* was refused as a duplicate.
C1_Witness ==
    /\ pc = "maint"
    /\ rx # <<>>
    /\ rx[1].pkt.hop_limit = 0
    /\ rx[1].pkt.port = "TracerouteApp"
    /\ rx[1].pkt.source = N1
    /\ rx[1].ret = "Ok(false)"
    /\ stats.loop_prevention_drops = 1

---------------------------------------------------------------------------
(* C2 *)

\* C2: a packet that passes admission, with room in the pending map, creates
\* exactly one pending entry and raises packets_queued by 1; the same packet
\* delivered again (no other packet queued in between) is refused as a
\* duplicate: loop_prevention_drops rises by 1 and nothing is queued.
C2_DuplicateSuppressed ==
    [][MsgStep =>
        LET p == rx'[1].pkt
        IN /\ (/\ FirstRule(p, recent) = 0
               /\ ~contains_key(pending, p.packet_id)
               /\ Len(pending) < MAX_PENDING_PACKETS)
              => /\ Len(pending') = Len(pending) + 1
                 /\ Cardinality({i \in 1..Len(pending') : pending'[i].packet = p}) = 1
                 /\ \A i \in 1..Len(pending) : pending'[i] = pending[i]
                 /\ stats'.packets_queued = stats.packets_queued + 1
                 /\ stats'.loop_prevention_drops = stats.loop_prevention_drops
                 /\ lastq' = <<p>>
           /\ lastq = <<p>>
              => /\ rx'[1].ret = "Ok(false)"
                 /\ pending' = pending
                 /\ stats'.packets_queued = stats.packets_queued
                 /\ stats'.loop_prevention_drops = stats.loop_prevention_drops + 1]_vars

\* The packet queued by the previous message was delivered again and dropped.
C2_Witness ==
    /\ pc = "maint"
    /\ rx # <<>>
    /\ lastq = <<rx[1].pkt>>
    /\ rx[1].ret = "Ok(false)"
    /\ Len(pending) = 1
    /\ stats.packets_received = 2
    /\ stats.packets_queued = 1
    /\ stats.loop_prevention_drops = 1

---------------------------------------------------------------------------
(* C3 *)

\* C3: a message whose source is our node and whose packet_id keys a pending
\* entry removes that entry and raises implicit_acks by 1, whatever admission
\* then answers (also when it rejects the packet as invalid); when no pending
\* entry has that id, the pending map and implicit_acks are unchanged.
C3_ImplicitAck ==
    [][MsgStep =>
        LET p == rx'[1].pkt
        IN p.source = OUR_NODE_ID
           => IF contains_key(pending, p.packet_id)
              THEN /\ pending' = MapRemove(pending, p.packet_id)
                   /\ ~contains_key(pending', p.packet_id)
                   /\ Len(pending') = Len(pending) - 1
                   /\ stats'.implicit_acks = stats.implicit_acks + 1
              ELSE /\ pending' = pending
                   /\ stats'.implicit_acks = stats.implicit_acks]_vars

\* An echo of an id that was pending, itself invalid for admission, has removed
\* the entry.
C3_Witness ==
    /\ pc = "maint"
    /\ rx # <<>>
    /\ rx[1].pkt.source = OUR_NODE_ID
    /\ rx[1].ret = "Err(Hop limit cannot exceed hop start)"
    /\ stats.packets_queued = 1
    /\ stats.implicit_acks = 1
    /\ pending = <<>>

---------------------------------------------------------------------------
(* C4 *)

\* C4: no pending entry holds a packet whose source is our node.
C4_OwnNeverQueued ==
    \A i \in 1..Len(pending) : pending[i].packet.source # OUR_NODE_ID

\* A valid packet of our own was evaluated and refused, not queued; it removed
\* the pending entry with its id through the implicit-ACK handler.
C4_Witness ==
    /\ pc = "maint"
    /\ rx # <<>>
    /\ rx[1].pkt.source = OUR_NODE_ID
    /\ rx[1].ret = "Ok(false)"
    /\ rx[1].qret = "none"
    /\ stats.implicit_acks = 1
    /\ stats.packets_queued = 1
    /\ pending = <<>>

---------------------------------------------------------------------------
(* C5 *)

\* C5: a valid packet from another node, not a duplicate, with hop_limit = 0
\* is refused: the pending map and the recent queue are unchanged and only
\* packets_received changes.
C5_HopLimitExhausted ==
    [][MsgStep =>
        LET p == rx'[1].pkt
        IN (/\ p.hop_limit = 0
            /\ FirstRule(p, recent) = 6)
           => /\ rx'[1].ret = "Ok(false)"
              /\ rx'[1].qret = "none"
              /\ pending' = pending
              /\ recent' = recent
              /\ stats' = [stats EXCEPT !.packets_received = @ + 1]]_vars

\* A packet with hop_limit = 0 whose id was not recent has been refused, with
\* another packet pending.
C5_Witness ==
    /\ pc = "maint"
    /\ rx # <<>>
    /\ rx[1].pkt.hop_limit = 0
    /\ rx[1].pkt.port = "PositionApp"
    /\ rx[1].ret = "Ok(false)"
    /\ stats.packets_received = 2
    /\ stats.loop_prevention_drops = 0
    /\ Len(pending) = 1

---------------------------------------------------------------------------
(* C7 *)

\* C7: an entry queued with wants_ack = false has max_retransmissions = 0 and
\* has never been transmitted while it is pending; the successful transmission
\* of such an entry removes it, counts one transmission and no retransmission.
C7_NoAckSingleTx ==
    [][/\ \A i \in 1..Len(pending) :
            ~pending[i].wants_ack
            => pending[i].max_retransmissions = 0 /\ pending[i].retry_count = 0
       /\ (/\ TxStep
           /\ contains_key(pending, inflight[1].packet_id)
           /\ ~pending[IndexOf(pending, inflight[1].packet_id)].wants_ack)
          => /\ ~contains_key(pending', inflight[1].packet_id)
             /\ stats'.packets_transmitted = stats.packets_transmitted + 1
             /\ stats'.retransmissions = stats.retransmissions]_vars

\* The only packet queued wanted no ACK; it has been transmitted once and is gone.
C7_Witness ==
    /\ pc = "wait"
    /\ lastq # <<>>
    /\ lastq[1].port = "TextMessageApp"
    /\ stats.packets_queued = 1
    /\ stats.packets_transmitted = 1
    /\ stats.retransmissions = 0
    /\ stats.implicit_acks = 0
    /\ pending = <<>>

---------------------------------------------------------------------------
(* The retry schedule: one Routing packet, the loop woken by a message or by *)
(* its maintenance timer, every transmission successful, no other task       *)
(* calling in.                                                               *)

RoutingPkt == Packet(2, N1, NODE_BROADCAST, 2, 3, "RoutingApp", TRUE)

HorizonRetry == 62000

EnvRetry ==
    [pkts |-> {RoutingPkt}, dts |-> {0}, cad |-> FALSE, txfail |-> FALSE,
     horizon |-> HorizonRetry, trace |-> FALSE]

NextRetry == RelayInit \/ RelayTask(EnvRetry)

SpecRetry == Init /\ [][NextRetry]_vars

---------------------------------------------------------------------------
(* C6 *)

\* C6: for a queued Routing packet that wants an ACK, max_retransmissions = 4;
\* each successful transmission that finds retry_count < 4 adds 1 to it and sets
\* next_tx_time to 5000, 15000, 30000, 60000 ms after the transmission; the
\* transmission that finds retry_count = 4 removes the entry; and the entry
\* leaves the pending map only that way (after its fifth transmission) or by
\* an implicit ACK.
C6_RetrySchedule ==
    [][\A i \in 1..Len(pending) :
          LET e == pending[i]
              sent == TxStep /\ inflight[1].packet_id = e.packet_id
              j == IndexOf(pending', e.packet_id)
          IN (e.packet.port = "RoutingApp" /\ e.wants_ack)
             => /\ e.max_retransmissions = 4
                /\ sent /\ e.retry_count < 4
                   => /\ j # 0
                      /\ pending'[j].retry_count = e.retry_count + 1
                      /\ pending'[j].next_tx_time =
                            now' + <<5000, 15000, 30000, 60000>>[e.retry_count + 1]
                /\ sent /\ e.retry_count = 4 => j = 0
                /\ j = 0
                   => \/ sent /\ e.retry_count = 4
                      \/ stats'.implicit_acks = stats.implicit_acks + 1]_vars

---------------------------------------------------------------------------
(* The node with the PHY's channel activity detection wired to               *)
(* is_channel_busy: each call may report the channel busy.  Relay task only. *)

TextPkt == Packet(1, N1, NODE_BROADCAST, 3, 3, "TextMessageApp", FALSE)

HorizonCad == 57000

EnvCad ==
    [pkts |-> {TextPkt}, dts |-> {0}, cad |-> TRUE, txfail |-> FALSE,
     horizon |-> HorizonCad, trace |-> FALSE]

NextCad == RelayInit \/ RelayTask(EnvCad)

SpecCad == Init /\ [][NextCad]_vars

---------------------------------------------------------------------------
(* C8 *)

\* The entry the transmission block picks at time t, as an index into the
\* pending map once the expired entries are gone; 0 when none is ready.
ReadyIndex(pend, st, t) ==
    get_next_ready_packet(cleanup_expired_packets(pend, st, t).pending, t)

\* C8: when the transmission block finds a ready packet that passes the
\* duty-cycle gate, either the transmission starts or the channel was reported
\* busy; a busy report adds 1 to channel_busy_events and to the entry's
\* busy count; the first eight reports set next_tx_time to now + 200, 400, 800,
\* 1600, 3200, 6400, 12800, 25600 ms, the ninth removes the entry and adds 1 to
\* packets_dropped.
C8_BusyBackoff ==
    [][(MaintStep /\ ReadyIndex(pending, stats, now) # 0
                  /\ can_transmit(duty, PACKET_AIRTIME_MS, now))
        => LET c == cleanup_expired_packets(pending, stats, now)
               e == c.pending[get_next_ready_packet(c.pending, now)]
               j == IndexOf(pending', e.packet_id)
               n == e.channel_busy_count + 1
           IN \/ /\ pc' = "tx"
                 /\ inflight'[1].packet_id = e.packet_id
                 /\ pending' = c.pending
                 /\ stats' = c.stats
              \/ /\ pc' = "wait"
                 /\ stats'.channel_busy_events = stats.channel_busy_events + 1
                 /\ IF n <= 8
                    THEN /\ j # 0
                         /\ pending'[j] =
                               [e EXCEPT !.channel_busy_count = n,
                                         !.next_tx_time = now + <<200, 400, 800, 1600, 3200,
                                                                  6400, 12800, 25600>>[n]]
                         /\ stats'.packets_dropped = stats.packets_dropped
                    ELSE /\ n = 9
                         /\ j = 0
                         /\ stats'.packets_dropped = stats.packets_dropped + 1]_vars

\* Nine busy reports for the one packet queued: the entry is gone, dropped.
C8_Witness ==
    /\ pc = "wait"
    /\ stats.packets_queued = 1
    /\ stats.channel_busy_events = 9
    /\ stats.packets_dropped = 1
    /\ stats.packets_transmitted = 0
    /\ stats.packets_expired = 0
    /\ pending = <<>>

---------------------------------------------------------------------------
(* The node late in a measurement period of the duty-cycle tracker.  The     *)
(* period began at boot (period_start = 0); `total` ms of airtime, 250 ms    *)
(* per transmission, have been recorded since; the ids of the last 31        *)
(* packets queued fill the recent queue; reset_relay_stats has just been     *)
(* called.  airlog holds the airtime recorded since the period began as one  *)
(* record, then one record per transmission.                                 *)

OldIds == [i \in 1..(RECENT_QUEUE_N - 1) |-> 1000 + i]

InitDuty(totals) ==
    /\ now = 3598000
    /\ pc = "wait"
    /\ pending = <<>>
    /\ recent = OldIds
    /\ \E total \in totals :
          /\ duty = [total_airtime_ms |-> total, period_start |-> 0]
          /\ airlog = <<[t |-> 0, ms |-> total]>>
    /\ stats = StatsDefault
    /\ inflight = <<>>
    /\ rx = <<>>
    /\ lastq = <<Packet(1031, N1, NODE_BROADCAST, 3, 3, "TextMessageApp", FALSE)>>
    /\ radio = RadioStart
    /\ bus = <<>>
    /\ HostStart
    /\ SensorsNew

HorizonDuty == 3601200

EnvDuty ==
    [pkts |-> {TextPkt, RoutingPkt}, dts |-> {0}, cad |-> FALSE, txfail |-> FALSE,
     horizon |-> HorizonDuty, trace |-> TRUE]

NextDuty == Running(EnvDuty)

\* 9.94 %, and the two last multiples of 250 ms below 11 %.
SpecDuty == InitDuty({358000, 395500, 395750}) /\ [][NextDuty]_vars

\* Exactly 10 % of the period.
SpecDutyLimit == InitDuty({360000}) /\ [][NextDuty]_vars

---------------------------------------------------------------------------
(* C9 *)

\* C9 as stated: with 358 000 ms recorded inside the current period, a ready
\* packet (airtime estimate 250 ms) is deferred: duty_cycle_blocks rises by 1
\* and nothing is handed to the transmitter.
C9_DeferredAt358000 ==
    [][(/\ MaintStep
        /\ ReadyIndex(pending, stats, now) # 0
        /\ ~PeriodExpired(duty, now)
        /\ duty.total_airtime_ms = 358000)
       => /\ stats'.duty_cycle_blocks = stats.duty_cycle_blocks + 1
          /\ pc' = "wait"
          /\ inflight' = <<>>]_vars

\* C9, amended: with 358 000 ms recorded inside the current period a ready
\* packet of 250 ms is admitted (358 250 * 100 / 3 600 000 = 9 <= 10):
\* duty_cycle_blocks is unchanged and the packet is handed to the transmitter.
\* Inside a period the gate defers a 250 ms packet, counting one
\* duty_cycle_blocks, leaving the pending entries in place and transmitting
\* nothing, exactly when the recorded airtime is at least 395 750 ms.
C9_GateThreshold ==
    [][(/\ MaintStep
        /\ ReadyIndex(pending, stats, now) # 0
        /\ ~PeriodExpired(duty, now))
       => LET c == cleanup_expired_packets(pending, stats, now)
              e == c.pending[get_next_ready_packet(c.pending, now)]
          IN /\ duty.total_airtime_ms = 358000 => pc' = "tx"
             /\ IF duty.total_airtime_ms < 395750
                THEN /\ pc' = "tx"
                     /\ inflight' = <<[packet_id |-> e.packet_id, packet |-> e.packet,
                                       airtime |-> 250]>>
                     /\ stats'.duty_cycle_blocks = stats.duty_cycle_blocks
                ELSE /\ pc' = "wait"
                     /\ inflight' = <<>>
                     /\ stats'.duty_cycle_blocks = stats.duty_cycle_blocks + 1
                     /\ stats'.packets_transmitted = stats.packets_transmitted
             /\ pending' = c.pending
             /\ duty' = duty]_vars

\* A packet is in transmission, admitted with 358 000 ms recorded in the period.
C9_Witness ==
    /\ pc = "tx"
    /\ ~PeriodExpired(duty, now)
    /\ duty.total_airtime_ms = 358000
    /\ inflight[1].airtime = 250
    /\ stats.duty_cycle_blocks = 0

---------------------------------------------------------------------------
(* C10 *)

RECURSIVE AirtimeIn(_, _, _)
\* The airtime of the records of log whose time lies in [from, to).
AirtimeIn(log, from, to) ==
    IF log = <<>> THEN 0
    ELSE (IF from <= Head(log).t /\ Head(log).t < to THEN Head(log).ms ELSE 0)
         + AirtimeIn(Tail(log), from, to)

\* C10: the airtime recorded inside any interval of 3600 s (taken here from
\* each instant at which airtime was recorded) never exceeds 360 000 ms.
C10_SlidingWindow ==
    \A i \in 1..Len(airlog) :
        AirtimeIn(airlog, airlog[i].t, airlog[i].t + 3600 * 1000) <= 360000

---------------------------------------------------------------------------
(* C11 *)

\* C11: once 3600 s have passed since period_start, the gate admits a ready
\* packet (no duty_cycle_block) and get_utilization_percent is 0; a recorded
\* transmission then sets the accumulator to its own airtime and period_start
\* to the time of recording; before that, a recorded transmission adds its
\* airtime to the accumulator and leaves period_start unchanged.
C11_PeriodRollover ==
    [][/\ PeriodExpired(duty, now)
          => /\ get_utilization_percent(duty, now) = 0
             /\ can_transmit(duty, PACKET_AIRTIME_MS, now)
             /\ (MaintStep /\ ReadyIndex(pending, stats, now) # 0)
                => /\ pc' = "tx"
                   /\ stats'.duty_cycle_blocks = stats.duty_cycle_blocks
       /\ (TxStep /\ Len(airlog') = Len(airlog) + 1)
          => IF now' - duty.period_start >= 3600 * 1000
             THEN duty' = [total_airtime_ms |-> inflight[1].airtime,
                           period_start |-> now']
             ELSE duty' = [total_airtime_ms |-> duty.total_airtime_ms + inflight[1].airtime,
                           period_start |-> duty.period_start]]_vars

\* A packet refused by the gate before the period ended was transmitted after
\* it ended, and the tracker began a new period with that transmission alone.
C11_Witness ==
    /\ pc = "wait"
    /\ stats.duty_cycle_blocks >= 1
    /\ duty.period_start >= 3600 * 1000
    /\ duty.period_start = now
    /\ duty.total_airtime_ms = 250
    /\ Len(airlog) = 2

---------------------------------------------------------------------------
(* The node 70 s before the end of a measurement period whose allowance is   *)
(* used up or nearly so.  Relay task only.                                   *)

InitDefer ==
    /\ now = 3530000
    /\ pc = "wait"
    /\ pending = <<>>
    /\ recent = OldIds
    /\ \E total \in {395500, 395750} :
          duty = [total_airtime_ms |-> total, period_start |-> 0]
    /\ stats = StatsDefault
    /\ inflight = <<>>
    /\ rx = <<>>
    /\ lastq = <<Packet(1031, N1, NODE_BROADCAST, 3, 3, "TextMessageApp", FALSE)>>
    /\ airlog = <<>>
    /\ radio = RadioStart
    /\ bus = <<>>
    /\ HostStart
    /\ SensorsNew

HorizonDefer == 3592000

EnvDefer ==
    [pkts |-> {TextPkt, RoutingPkt}, dts |-> {0}, cad |-> FALSE, txfail |-> FALSE,
     horizon |-> HorizonDefer, trace |-> FALSE]

NextDefer == RelayTask(EnvDefer)

SpecDefer == InitDefer /\ [][NextDefer]_vars

---------------------------------------------------------------------------
(* C12 *)

\* The refusal of the ready packet by the duty-cycle gate: the swept pending
\* map is kept as it is, the refused entry included, nothing is handed to the
\* transmitter and duty_cycle_blocks rises by 1.
RefusalDefers ==
    (MaintStep /\ ReadyIndex(pending, stats, now) # 0
               /\ ~can_transmit(duty, PACKET_AIRTIME_MS, now))
    => LET c == cleanup_expired_packets(pending, stats, now)
           e == c.pending[get_next_ready_packet(c.pending, now)]
       IN /\ pending' = c.pending
          /\ contains_key(pending', e.packet_id)
          /\ pc' = "wait"
          /\ inflight' = <<>>
          /\ stats'.duty_cycle_blocks = stats.duty_cycle_blocks + 1
          /\ stats'.packets_dropped = stats.packets_dropped
          /\ stats'.packets_transmitted = stats.packets_transmitted

\* C12 as stated: a refusal by the gate removes nothing and is counted in
\* duty_cycle_blocks, and an entry that is ready while the gate is closed stays
\* pending (an implicit ACK aside) until the gate opens.
C12_DeferredUntilPermitted ==
    [][/\ RefusalDefers
       /\ \A i \in 1..Len(pending) :
             (/\ now >= pending[i].next_tx_time
              /\ ~can_transmit(duty, PACKET_AIRTIME_MS, now))
             => \/ contains_key(pending', pending[i].packet_id)
                \/ stats'.implicit_acks = stats.implicit_acks + 1]_vars

\* C12, amended: a refusal by the gate removes nothing and is counted in
\* duty_cycle_blocks; an entry that is ready while the gate is closed stays
\* pending (an implicit ACK aside) until the gate opens or until its age
\* exceeds 60 000 ms, when the expiration sweep removes it and counts it in
\* packets_expired without its having been transmitted.
C12_DeferredOrExpired ==
    [][/\ RefusalDefers
       /\ \A i \in 1..Len(pending) :
             (/\ now >= pending[i].next_tx_time
              /\ ~can_transmit(duty, PACKET_AIRTIME_MS, now))
             => \/ contains_key(pending', pending[i].packet_id)
                \/ stats'.implicit_acks = stats.implicit_acks + 1
                \/ /\ MaintStep
                   /\ now - pending[i].queued_at > 60000
                   /\ stats'.packets_expired > stats.packets_expired
                   /\ stats'.packets_transmitted = stats.packets_transmitted]_vars

\* The one packet queued was refused by the gate at every attempt for 60 s and
\* then removed by the expiration sweep, never transmitted.
C12_Witness ==
    /\ pc = "wait"
    /\ stats.packets_queued = 1
    /\ stats.duty_cycle_blocks >= 60
    /\ stats.packets_expired = 1
    /\ stats.packets_transmitted = 0
    /\ stats.packets_dropped = 0
    /\ pending = <<>>

---------------------------------------------------------------------------
(* The node from boot for a little more than the maximum packet age, with    *)
(* the PHY's channel activity detection wired in, so that a Routing packet  *)
(* reaches the age limit in many retry and backoff states.  Relay task only. *)

HorizonSweep == 62000

EnvSweep ==
    [pkts |-> {RoutingPkt}, dts |-> {0}, cad |-> TRUE, txfail |-> FALSE,
     horizon |-> HorizonSweep, trace |-> FALSE]

NextSweep == RelayInit \/ RelayTask(EnvSweep)

SpecSweep == Init /\ [][NextSweep]_vars

---------------------------------------------------------------------------
(* C13 *)

\* The indices of the pending entries older than 60 000 ms at time t.
OlderThanLimit(pend, t) == {i \in 1..Len(pend) : t - pend[i].queued_at > 60000}

\* C13: each run of the transmission block removes every pending entry whose
\* age exceeds 60 000 ms, whatever its retry and busy counts, and adds the
\* number of entries removed to packets_expired; an entry whose age is at most
\* 60 000 ms is not touched by the sweep: it is still pending and unchanged
\* afterwards, unless it is the one entry that the same block then picks and
\* backs off or drops on a busy channel.
C13_ExpirationSweep ==
    [][MaintStep =>
        LET old == OlderThanLimit(pending, now)
            busy == stats'.channel_busy_events = stats.channel_busy_events + 1
        IN /\ \A i \in old : ~contains_key(pending', pending[i].packet_id)
           /\ stats'.packets_expired = stats.packets_expired + Cardinality(old)
           /\ Len(pending') >= Len(pending) - Cardinality(old) - (IF busy THEN 1 ELSE 0)
           /\ Cardinality({i \in 1..Len(pending) \ old :
                              LET j == IndexOf(pending', pending[i].packet_id)
                              IN j = 0 \/ pending'[j] # pending[i]})
                 <= (IF busy THEN 1 ELSE 0)
           /\ \A i \in 1..Len(pending) \ old :
                 LET j == IndexOf(pending', pending[i].packet_id)
                 IN j # 0 => /\ pending'[j].queued_at = pending[i].queued_at
                             /\ pending'[j].retry_count = pending[i].retry_count
                             /\ pending'[j].packet = pending[i].packet]_vars

\* An entry that had been retransmitted and backed off on a busy channel has
\* been removed by the sweep, not by a drop.
C13_Witness ==
    /\ pc = "wait"
    /\ stats.packets_queued = 1
    /\ stats.packets_expired = 1
    /\ stats.retransmissions >= 2
    /\ stats.channel_busy_events >= 3
    /\ stats.packets_dropped = 0
    /\ pending = <<>>

---------------------------------------------------------------------------
(* The node after a burst: 15 or 16 distinct packets from a peer were        *)
(* received and queued within the first millisecond, none is ready yet, and  *)
(* reset_relay_stats has been called since.  Relay task only.               *)

BurstPkt(i) ==
    Packet(100 + i, N1, NODE_BROADCAST, 3, 3,
           IF i % 2 = 0 THEN "RoutingApp" ELSE "TextMessageApp", FALSE)

\* The pending map and the recent queue after the first n packets of the
\* burst went through the message branch at time 0: each was admitted and
\* queued behind the ones before it.
BurstPending(n) ==
    [i \in 1..n |-> NewPending(BurstPkt(i), packet_wants_ack(BurstPkt(i)),
                               get_packet_priority(BurstPkt(i)), 0)]

BurstRecent(n) == [i \in 1..n |-> BurstPkt(i).packet_id]

InitFull ==
    /\ now = 0
    /\ pc = "wait"
    /\ \E n \in {MAX_PENDING_PACKETS - 1, MAX_PENDING_PACKETS} :
          /\ pending = BurstPending(n)
          /\ recent = BurstRecent(n)
          /\ lastq = <<BurstPkt(n)>>
    /\ duty = DutyCycleTrackerNew(0)
    /\ stats = StatsDefault
    /\ inflight = <<>>
    /\ rx = <<>>
    /\ airlog = <<>>
    /\ radio = RadioStart
    /\ bus = <<>>
    /\ HostStart
    /\ SensorsNew

PktsFull ==
    {Packet(200, N1, NODE_BROADCAST, 3, 3, "TextMessageApp", FALSE),
     Packet(201, N1, NODE_BROADCAST, 2, 3, "RoutingApp", TRUE),
     Packet(101, OUR_NODE_ID, NODE_BROADCAST, 2, 3, "TextMessageApp", FALSE),
     BurstPkt(2)}

HorizonFull == 3200

EnvFull ==
    [pkts |-> PktsFull, dts |-> {0}, cad |-> FALSE, txfail |-> FALSE,
     horizon |-> HorizonFull, trace |-> FALSE]

NextFull == RelayTask(EnvFull)

SpecFull == InitFull /\ [][NextFull]_vars

---------------------------------------------------------------------------
(* C14 *)

\* C14: when the pending map holds 16 entries and an admitted packet whose id
\* is not pending is queued, queue_packet returns QueueFull, packets_dropped
\* rises by 1, packets_queued is unchanged and the pending map and the recent
\* queue are left as they were.
C14_QueueFullDropsNewest ==
    [][MsgStep =>
        LET p == rx'[1].pkt
        IN (/\ Len(pending) = 16
            /\ rx'[1].ret = "Ok(true)"
            /\ ~contains_key(pending, p.packet_id))
           => /\ rx'[1].qret = "Err(QueueFull)"
              /\ stats'.packets_dropped = stats.packets_dropped + 1
              /\ stats'.packets_queued = stats.packets_queued
              /\ pending' = pending
              /\ recent' = recent
              /\ ~is_recent_packet(recent', p.packet_id)]_vars

\* A packet was admitted and refused by the full pending map.
C14_Witness ==
    /\ pc = "maint"
    /\ rx # <<>>
    /\ rx[1].ret = "Ok(true)"
    /\ rx[1].qret = "Err(QueueFull)"
    /\ Len(pending) = 16
    /\ stats.packets_dropped = 1
    /\ stats.packets_queued = 0

---------------------------------------------------------------------------
(* The node from boot with a PHY transmit primitive that can fail: each      *)
(* call of transmit_packet may return an error.                              *)

HorizonTxFail == 2300

EnvTxFail ==
    [pkts |-> {TextPkt, RoutingPkt}, dts |-> {0}, cad |-> FALSE, txfail |-> TRUE,
     horizon |-> HorizonTxFail, trace |-> TRUE]

NextTxFail == RelayInit \/ Running(EnvTxFail)

SpecTxFail == Init /\ [][NextTxFail]_vars

---------------------------------------------------------------------------
(* C15 *)

\* C15: when transmit_packet returns, the loop is back at its wait with
\* nothing in flight, and either the transmission succeeded (no drop is
\* counted, the airtime is recorded) or it failed: the packet's pending entry
\* is removed and the others kept, packets_dropped rises by 1,
\* packets_transmitted and retransmissions are unchanged and no airtime is
\* recorded.
C15_TransmitError ==
    [][TxStep =>
        LET id == inflight[1].packet_id
        IN /\ pc' = "wait"
           /\ inflight' = <<>>
           /\ \/ /\ stats'.packets_dropped = stats.packets_dropped
                 /\ stats'.packets_transmitted = stats.packets_transmitted + 1
                 /\ duty' = record_transmission(duty, inflight[1].airtime, now')
                 /\ Len(airlog') = Len(airlog) + 1
              \/ /\ stats' = [stats EXCEPT !.packets_dropped = @ + 1]
                 /\ ~contains_key(pending', id)
                 /\ pending' = MapRemove(pending, id)
                 /\ Len(pending') = Len(pending) - 1
                 /\ duty' = duty
                 /\ airlog' = airlog]_vars

\* The first packet queued was dropped on a transmit error without any airtime
\* recorded, and the loop then took and queued another packet.
C15_Witness ==
    /\ pc = "maint"
    /\ rx # <<>>
    /\ rx[1].qret = "Ok"
    /\ stats.packets_queued = 2
    /\ stats.packets_dropped = 1
    /\ stats.packets_transmitted = 0
    /\ stats.packets_expired = 0
    /\ stats.implicit_acks = 0
    /\ duty.total_airtime_ms = 0
    /\ airlog = <<>>
    /\ Len(pending) = 1

---------------------------------------------------------------------------
(* The radio task of main: its receive loop, one iteration per action.       *)

MaxFrames == 4

Frame(len, hl, hs, id, payload) ==
    [len |-> len, hop_limit |-> hl, hop_start |-> hs, id |-> id, payload |-> payload]

\* Frames that pass every phase, frames too short for a header (with and
\* without a flags byte), frames whose hop fields are inconsistent, and a
\* frame whose payload does not decode.
Frames ==
    {Frame(40, 3, 3, 7, "TextMessageApp"),
     Frame(30, 2, 3, 9, "RoutingApp"),
     Frame(0, 0, 0, 0, "malformed"),
     Frame(8, 0, 0, 0, "malformed"),
     Frame(15, 1, 3, 5, "malformed"),
     Frame(14, 5, 2, 5, "malformed"),
     Frame(40, 4, 3, 7, "TextMessageApp"),
     Frame(40, 3, 3, 7, "malformed")}

\* lora.rx returned an error: it is logged and the loop goes on.
RadioRxError ==
    /\ radio.pc = "rx"
    /\ radio.frames < MaxFrames
    /\ radio' = [radio EXCEPT !.frames = @ + 1, !.last = <<>>]
    /\ UNCHANGED <<now, pc, pending, recent, duty, stats, inflight, rx, lastq, airlog, bus>>
    /\ UNCHANGED hostvars
    /\ UNCHANGED telemetryvars

\* lora.rx returned a frame: the header of the first 16 bytes of the buffer is
\* parsed and unwrapped, then the frame is handed to handle_received_packet.
RadioRx ==
    /\ radio.pc = "rx"
    /\ radio.frames < MaxFrames
    /\ \E f \in Frames :
          IF Header_from_bytes(HEADER_LEN, BufferHops(f)) = <<>>
          THEN /\ radio' = [pc |-> "panicked", frames |-> radio.frames + 1, last |-> <<f>>]
               /\ bus' = bus
          ELSE /\ radio' = [pc |-> "rx", frames |-> radio.frames + 1, last |-> <<f>>]
               /\ bus' = handle_received_packet(bus, f)
    /\ UNCHANGED <<now, pc, pending, recent, duty, stats, inflight, rx, lastq, airlog>>
    /\ UNCHANGED hostvars
    /\ UNCHANGED telemetryvars

NextRadio == RadioRx \/ RadioRxError

SpecRadio == Init /\ [][NextRadio]_vars

\* An iteration of the receive loop that took a frame.
RadioStep == radio'.frames = radio.frames + 1 /\ radio'.last # <<>>

---------------------------------------------------------------------------
(* C16 *)

\* C16: whatever frame the radio hands over, the receive loop goes on to its
\* next receive; a frame whose header does not parse (shorter than 16 bytes, or
\* hop_limit > hop_start), or whose payload does not decode, publishes nothing.
C16_ReceiveLoopNeverHalts ==
    [][RadioStep =>
        LET f == radio'.last[1]
        IN /\ radio'.pc = "rx"
           /\ (f.len < 16 \/ f.hop_limit > f.hop_start \/ f.payload = "malformed")
              => bus' = bus]_vars

---------------------------------------------------------------------------
(* C17 *)

\* The frame passes from_bytes, then decrypt, then decode.
PassesAllPhases(f) ==
    /\ f.len >= 16
    /\ f.hop_limit <= f.hop_start
    /\ f.payload # "malformed"

\* C17: every packet on the bus is the decoded form of a received frame that
\* passed from_bytes, decrypt and decode; an iteration of the receive loop
\* publishes exactly that packet when its frame passes the three phases, and
\* leaves the bus as it was when any phase fails.
C17_OnlyDecodedPublished ==
    [][/\ \A i \in 1..Len(bus) :
             /\ PassesAllPhases(bus[i].frame)
             /\ bus[i].pkt = [packet_id |-> bus[i].frame.id,
                              hop_limit |-> bus[i].frame.hop_limit,
                              hop_start |-> bus[i].frame.hop_start,
                              port |-> bus[i].frame.payload]
       /\ RadioStep
          => LET f == radio'.last[1]
             IN IF PassesAllPhases(f)
                THEN /\ Len(bus') = Len(bus) + 1
                     /\ bus'[Len(bus')].frame = f
                     /\ \A i \in 1..Len(bus) : bus'[i] = bus[i]
                ELSE bus' = bus]_vars

\* A frame whose payload did not decode was taken after a good frame: the bus
\* holds the one packet of the good frame.
C17_Witness ==
    /\ radio.pc = "rx"
    /\ radio.frames = 2
    /\ radio.last # <<>>
    /\ radio.last[1].len = 40
    /\ radio.last[1].hop_limit = 3
    /\ radio.last[1].payload = "malformed"
    /\ Len(bus) = 1
    /\ bus[1].pkt.port = "RoutingApp"

---------------------------------------------------------------------------
(* C18 *)

\* C18: the packet handed to the transmitter has the smallest next_tx_time
\* among the pending entries that are ready (now >= next_tx_time) once the
\* expired entries are gone.
C18_EarliestReadyFirst ==
    [][(MaintStep /\ pc' = "tx")
        => LET c == cleanup_expired_packets(pending, stats, now).pending
               k == IndexOf(c, inflight'[1].packet_id)
           IN /\ k # 0
              /\ now >= c[k].next_tx_time
              /\ \A i \in 1..Len(c) :
                    now >= c[i].next_tx_time
                    => c[k].next_tx_time <= c[i].next_tx_time]_vars

---------------------------------------------------------------------------
(* The node with both of its bounded collections at or next to their limit:  *)
(* 15 packets were relayed earlier and are still remembered in the recent    *)
(* queue, then a burst of 15 or 16 packets was queued and none is ready yet; *)
(* reset_relay_stats has been called since.                                  *)

InitBounds ==
    /\ now = 0
    /\ pc = "wait"
    /\ \E n \in {MAX_PENDING_PACKETS - 1, MAX_PENDING_PACKETS} :
          /\ pending = BurstPending(n)
          /\ recent = SubSeq(OldIds, 1, 15) \o BurstRecent(n)
          /\ lastq = <<BurstPkt(n)>>
    /\ duty = DutyCycleTrackerNew(0)
    /\ stats = StatsDefault
    /\ inflight = <<>>
    /\ rx = <<>>
    /\ airlog = <<>>
    /\ radio = RadioStart
    /\ bus = <<>>
    /\ HostStart
    /\ SensorsNew

HorizonBounds == 2200

EnvBounds ==
    [pkts |-> PktsFull, dts |-> {0}, cad |-> FALSE, txfail |-> FALSE,
     horizon |-> HorizonBounds, trace |-> FALSE]

NextBounds == RelayTask(EnvBounds) \/ ResetRelayStats

SpecBounds == InitBounds /\ [][NextBounds]_vars

---------------------------------------------------------------------------
(* C19 *)

\* C19: the pending map never holds more than 16 entries and the recent queue
\* never more than 32 ids; the recent queue changes only by taking a new id at
\* its end, and when it does not grow in doing so, the id it gives up is the
\* oldest one.
C19_BoundedCollections ==
    [][/\ Len(pending) <= 16
       /\ Len(recent) <= 32
       /\ Cardinality(PendingIds(pending)) = Len(pending)
       /\ recent' # recent
          => /\ Len(recent') >= 1
             /\ IF Len(recent') = Len(recent) + 1
                THEN recent' = Append(recent, recent'[Len(recent')])
                ELSE recent' = Append(Tail(recent), recent'[Len(recent')])]_vars

\* The pending map is full and the recent queue has given up its oldest ids
\* for the ones queued last.
C19_Witness ==
    /\ Len(pending) = 16
    /\ Len(recent) = 31
    /\ recent[1] = 1003
    /\ recent[30] \in {200, 201}
    /\ recent[31] \in {200, 201}

---------------------------------------------------------------------------
(* C20 *)

\* C20: every pending entry is keyed by the id of the packet it holds, and
\* that packet has packet_id # 0 and 1 <= hop_limit <= hop_start <= 7.
C20_PendingWellFormed ==
    \A i \in 1..Len(pending) :
        LET p == pending[i].packet
        IN /\ pending[i].packet_id = p.packet_id
           /\ p.packet_id # 0
           /\ 1 <= p.hop_limit
           /\ p.hop_limit <= p.hop_start
           /\ p.hop_start <= 7

\* With one packet pending, a packet whose hop_limit exceeds its hop_start was
\* evaluated and rejected.
C20_Witness ==
    /\ pc = "maint"
    /\ rx # <<>>
    /\ rx[1].pkt.hop_limit > rx[1].pkt.hop_start
    /\ rx[1].pkt.packet_id # 0
    /\ rx[1].pkt.source = N1
    /\ rx[1].ret = "Err(Hop limit cannot exceed hop start)"
    /\ Len(pending) = 1

---------------------------------------------------------------------------
(* C21 *)

\* C21: every pending entry has retry_count <= max_retransmissions, and its
\* max_retransmissions is 0 when wants_ack is false, otherwise 4 for a Routing
\* packet, 2 for a text message and 3 for any other port.
C21_RetryWithinTable ==
    \A i \in 1..Len(pending) :
        LET e == pending[i]
        IN /\ e.retry_count <= e.max_retransmissions
           /\ e.max_retransmissions =
                 (IF ~e.wants_ack THEN 0
                  ELSE IF e.packet.port = "RoutingApp" THEN 4
                  ELSE IF e.packet.port = "TextMessageApp" THEN 2
                  ELSE 3)

\* A Routing packet has used all four of its retransmissions and is still
\* pending, next to a text message that is allowed none.
C21_Witness ==
    /\ Len(pending) = 2
    /\ \E i \in 1..2 :
          /\ pending[i].packet.port = "RoutingApp"
          /\ pending[i].wants_ack
          /\ pending[i].retry_count = 4
    /\ \E i \in 1..2 :
          /\ pending[i].packet.port = "TextMessageApp"
          /\ ~pending[i].wants_ack
          /\ pending[i].max_retransmissions = 0

---------------------------------------------------------------------------
(* C22 *)

\* C22: packets_received >= packets_queued + loop_prevention_drops in every
\* state; each evaluated packet adds exactly 1 to packets_received and ends in
\* at most one of: queued (packets_queued + 1, admitted), dropped as a duplicate
\* (loop_prevention_drops + 1, refused) or refused by another rule (neither
\* counter moves); no other step of the relay task moves the three counters.
C22_ReceivedAccounting ==
    [][/\ stats.packets_received >= stats.packets_queued + stats.loop_prevention_drops
       /\ LET q == stats'.packets_queued - stats.packets_queued
              d == stats'.loop_prevention_drops - stats.loop_prevention_drops
          IN IF MsgStep
             THEN /\ stats'.packets_received = stats.packets_received + 1
                  /\ q \in {0, 1}
                  /\ d \in {0, 1}
                  /\ q + d <= 1
                  /\ q = 1 <=> (rx'[1].ret = "Ok(true)" /\ rx'[1].qret = "Ok")
                  /\ d = 1 => rx'[1].ret = "Ok(false)"
                  /\ (rx'[1].ret \notin {"Ok(true)", "Ok(false)"}) => (q = 0 /\ d = 0)
             ELSE \/ /\ stats'.packets_received = stats.packets_received
                     /\ q = 0
                     /\ d = 0
                  \/ stats' = StatsDefault]_vars

\* Two packets were evaluated: one is queued, the other was refused as invalid
\* and is counted in packets_received only.
C22_Witness ==
    /\ pc = "maint"
    /\ rx # <<>>
    /\ rx[1].ret = "Err(Packet ID cannot be zero)"
    /\ stats.packets_received = 2
    /\ stats.packets_queued = 1
    /\ stats.loop_prevention_drops = 0

---------------------------------------------------------------------------
(* C23 *)

\* The step of reset_relay_stats: the statistics become RelayStats::default()
\* and nothing else of the relay state changes.
ResetStep ==
    /\ stats' = StatsDefault
    /\ UNCHANGED <<now, pc, pending, recent, duty, inflight, rx, lastq, airlog>>

CountersNonDecreasing == \A f \in DOMAIN StatsDefault : stats'[f] >= stats[f]

\* C23 (as stated): every RelayStats counter is non-decreasing over every step
\* of the relay task and every public API call.
C23_CountersMonotone == [][CountersNonDecreasing]_vars

\* C23 (amended): every RelayStats counter is non-decreasing over every step of
\* the relay task and every public API call other than reset_relay_stats, which
\* sets all the counters to zero.
C23_CountersMonotoneExceptReset == [][CountersNonDecreasing \/ ResetStep]_vars

\* reset_relay_stats was called after a packet had been received and queued:
\* the entry is still pending and every counter reads zero.
C23_Witness ==
    /\ Len(pending) > 0
    /\ Len(recent) > 0
    /\ stats = StatsDefault

---------------------------------------------------------------------------
(* C24 *)

---------------------------------------------------------------------------
(* The relay loop with no inbound traffic: one or two packets were queued at *)
(* t0 and the bus stays silent from then on, so that the loop's wait only    *)
(* ends on the maintenance timer.  The PHY may report channel activity.      *)

HorizonIdle == 62000

EnvIdle ==
    [pkts |-> {}, dts |-> {}, cad |-> TRUE, txfail |-> FALSE,
     horizon |-> HorizonIdle, trace |-> FALSE]

InitIdle ==
    /\ pc = "wait"
    /\ now \in {0, 300, 700}
    /\ \E first \in {TextPkt, RoutingPkt}, second \in {<<>>, <<TextPkt>>, <<RoutingPkt>>} :
          LET a == process_packet(<<>>, <<>>, StatsDefault, first, now)
              b == IF second = <<>> THEN a
                   ELSE process_packet(a.pending, a.recent, a.stats, second[1], now)
          IN /\ pending = b.pending
             /\ recent = b.recent
             /\ stats = b.stats
             /\ lastq = IF b.qret = "Ok" THEN second ELSE <<first>>
    /\ duty = DutyCycleTrackerNew(0)
    /\ inflight = <<>>
    /\ rx = <<>>
    /\ airlog = <<>>
    /\ radio = RadioStart
    /\ bus = <<>>
    /\ HostStart
    /\ SensorsNew

NextIdle == RelayTimer(EnvIdle) \/ Maintenance(EnvIdle) \/ TxComplete(EnvIdle)

SpecIdle == InitIdle /\ [][NextIdle]_vars

---------------------------------------------------------------------------
(* C25 *)

\* The entries the expiration sweep leaves at a wake-up, and among them the
\* indices of those whose next_tx_time has passed.
Kept == SelectSeq(pending, LAMBDA e : now - e.queued_at <= MAX_PACKET_AGE_MS)

DueNow == {k \in 1..Len(Kept) : Kept[k].next_tx_time <= now}

FirstDue == CHOOSE k \in DueNow : \A j \in DueNow : k <= j

\* With no inbound traffic the wait ends on the timer, exactly 1000 ms later.
IdleWake ==
    /\ pc = "wait" =>
          /\ pc' = "maint"
          /\ now' = now + MAINTENANCE_MS
          /\ UNCHANGED <<pending, stats, duty>>
    /\ (pc = "wait" /\ now + MAINTENANCE_MS <= HorizonIdle) => ENABLED RelayTimer(EnvIdle)

\* The wake-up runs the expiration sweep, then the transmission gate on the
\* first entry in table order whose next_tx_time has passed: the entry is put
\* on the air, or held back by the duty-cycle gate or by a busy channel.
SweepAndGate ==
    pc = "maint" =>
       /\ \A k \in 1..Len(pending') : now - pending'[k].queued_at <= MAX_PACKET_AGE_MS
       /\ stats'.packets_expired = stats.packets_expired + Len(pending) - Len(Kept)
       /\ DueNow = {} => (pc' = "wait" /\ pending' = Kept)
       /\ DueNow # {} =>
             \/ /\ pc' = "tx"
                /\ inflight'[1].packet_id = Kept[FirstDue].packet_id
                /\ pending' = Kept
             \/ /\ pc' = "wait"
                /\ stats'.duty_cycle_blocks = stats.duty_cycle_blocks + 1
             \/ /\ pc' = "wait"
                /\ stats'.channel_busy_events = stats.channel_busy_events + 1

\* C25 (as stated): with no inbound traffic the loop wakes on the 1 s timer,
\* every wake-up runs the sweep and the gate, and every entry the sweep leaves
\* with its next_tx_time passed is taken up by the gate of that wake-up, which
\* comes less than one loop period (1000 ms timer + 100 ms transmission) after
\* the entry's next_tx_time.
C25_ReadyConsideredWithinPeriod ==
    [][/\ IdleWake
       /\ SweepAndGate
       /\ pc = "maint" =>
             \A k \in DueNow :
                /\ k = FirstDue
                /\ now - Kept[k].next_tx_time < MAINTENANCE_MS + TX_SIM_MS]_vars

\* C25 (amended): with no inbound traffic the loop wakes on the 1 s timer and
\* every wake-up runs the sweep and the gate; the gate takes up one entry, the
\* first in table order whose next_tx_time has passed, and leaves every other
\* such entry as it is for a later wake-up.
C25_IdleLoopRunsGate ==
    [][/\ IdleWake
       /\ SweepAndGate
       /\ pc = "maint" =>
             \A k \in DueNow :
                k # FirstDue => \E j \in 1..Len(pending') : pending'[j] = Kept[k]]_vars

\* The timer woke the silent loop at 1000 ms with both packets due: the text
\* message, first in the table, is on the air, and the Routing packet, due
\* since 352 ms, is left for the next wake-up.
C25_Witness ==
    /\ pc = "tx"
    /\ now = 1000
    /\ inflight # <<>>
    /\ inflight[1].packet_id = TextPkt.packet_id
    /\ Len(pending) = 2
    /\ pending[2].packet_id = RoutingPkt.packet_id
    /\ pending[2].next_tx_time = 352
    /\ pending[2].retry_count = 0

---------------------------------------------------------------------------
(* The USB serial task and the packet processor.  The host sends             *)
(* request-config messages, the bus delivers packets of three sources, one   *)
(* of them carrying our own node number, and a USB write can fail.           *)

N2 == <<21862, 30600>>               \* 0x55667788

Sources == {N1, N2, MY_NODE_NUM}

ConfigIds == {7, 9}

MaxPacketIds == 3

\* The least value of the counter taken as close to its wrap.
IdWrapStart == 2147483645

relayvars == <<now, pc, pending, recent, duty, stats, inflight, rx, lastq, airlog>>

\* The select of packet_forwarder took a ToRadio with want_config_id = n: the
\* first packet id is drawn and the write of MyNodeInfo starts.
FwdWantConfig ==
    /\ fwd.at = "select"
    /\ (packet_id_counter <= MaxPacketIds \/ packet_id_counter >= IdWrapStart)
    /\ \E n \in ConfigIds :
          fwd' = [ForwarderStart EXCEPT !.at = "my", !.cfg = n, !.start = Len(usb)]
    /\ packet_id_counter' = get_next_packet_id(packet_id_counter)
    /\ UNCHANGED <<usb, nodes, db_guard, proc>>
    /\ UNCHANGED relayvars
    /\ UNCHANGED telemetryvars
    /\ UNCHANGED rxvars

\* The select of packet_forwarder took a packet from the bus.  For a NodeInfo
\* packet the node is looked up under try_lock and written with the guard
\* held; the relayed ports are written as mesh packets; the rest is ignored.
FwdBusMessage ==
    /\ fwd.at = "select"
    /\ (packet_id_counter <= MaxPacketIds \/ packet_id_counter >= IdWrapStart)
    /\ \E source \in Sources, port \in {"NodeinfoApp", "TextMessageApp", "AdminApp"} :
          IF port = "NodeinfoApp" /\ db_guard = <<>> /\ get_node(nodes, source) # <<>>
          THEN /\ fwd' = [fwd EXCEPT !.at = "update", !.todo = <<source>>]
               /\ db_guard' = <<"packet_forwarder">>
               /\ packet_id_counter' = get_next_packet_id(packet_id_counter)
          ELSE IF port = "TextMessageApp"
          THEN /\ fwd' = [fwd EXCEPT !.at = "mesh", !.todo = <<source>>]
               /\ packet_id_counter' = get_next_packet_id(packet_id_counter)
               /\ UNCHANGED db_guard
          ELSE UNCHANGED <<fwd, db_guard, packet_id_counter>>
    /\ UNCHANGED <<usb, nodes, proc>>
    /\ UNCHANGED relayvars
    /\ UNCHANGED telemetryvars
    /\ UNCHANGED rxvars

\* send_packet_to_usb returned Ok: the message is on the wire and the task runs
\* on to its next await.
FwdWritten ==
    /\ fwd.at # "select"
    /\ usb' = Append(usb, writing(fwd, packet_id_counter))
    /\ LET r == after_write(fwd, nodes, db_guard)
       IN /\ fwd' = r.fwd
          /\ db_guard' = r.guard
          /\ packet_id_counter' = IF r.fwd.at = "select" THEN packet_id_counter
                                  ELSE get_next_packet_id(packet_id_counter)
    /\ UNCHANGED <<nodes, proc>>
    /\ UNCHANGED relayvars
    /\ UNCHANGED telemetryvars
    /\ UNCHANGED rxvars

\* send_packet_to_usb returned an error.  In the answer to a request-config the
\* error leaves packet_forwarder, which drops the guard it may hold, and the
\* task starts over at the next connection; the forwards of bus packets log
\* the error and go back to the select.
FwdDisconnected ==
    /\ fwd.at # "select"
    /\ IF fwd.at \in {"update", "mesh"}
       THEN /\ fwd' = [fwd EXCEPT !.at = "select", !.todo = <<>>]
            /\ db_guard' = IF fwd.at = "update" THEN <<>> ELSE db_guard
       ELSE /\ fwd' = ForwarderStart
            /\ db_guard' = IF fwd.at = "peer" THEN <<>> ELSE db_guard
    /\ UNCHANGED <<usb, nodes, proc, packet_id_counter>>
    /\ UNCHANGED relayvars
    /\ UNCHANGED telemetryvars
    /\ UNCHANGED rxvars

\* packet_processor_task took a packet from the bus: it records the node under
\* the lock, or parks in lock().await when the guard is taken.
ProcMessage ==
    /\ proc = <<>>
    /\ \E source \in Sources :
          IF db_guard = <<>>
          THEN /\ nodes' = add_or_update_node_from_packet(nodes, source)
               /\ UNCHANGED proc
          ELSE /\ proc' = <<source>>
               /\ UNCHANGED nodes
    /\ UNCHANGED <<fwd, usb, db_guard, packet_id_counter>>
    /\ UNCHANGED relayvars
    /\ UNCHANGED telemetryvars
    /\ UNCHANGED rxvars

\* The guard was released and packet_processor_task, parked in lock().await,
\* takes it, records the node and releases it.
ProcLocked ==
    /\ proc # <<>>
    /\ db_guard = <<>>
    /\ nodes' = add_or_update_node_from_packet(nodes, proc[1])
    /\ proc' = <<>>
    /\ UNCHANGED <<fwd, usb, db_guard, packet_id_counter>>
    /\ UNCHANGED relayvars
    /\ UNCHANGED telemetryvars
    /\ UNCHANGED rxvars

NextHost ==
    \/ FwdWantConfig
    \/ FwdBusMessage
    \/ FwdWritten
    \/ FwdDisconnected
    \/ ProcMessage
    \/ ProcLocked

SpecHost == Init /\ [][NextHost]_vars

---------------------------------------------------------------------------
(* C26 *)

\* What a FromRadio message carries, without its packet id.
Carried(m) == <<m.kind, m.num, m.arg>>

\* The answer the specification gives for request n over the database db.
Answer(n, db) ==
    <<<<"MyNodeInfo", MY_NODE_NUM, 0>>, <<"NodeInfo", MY_NODE_NUM, 0>>>>
    \o [i \in 1..Len(SelectSeq(db, LAMBDA x : x # MY_NODE_NUM)) |->
           <<"NodeInfo", SelectSeq(db, LAMBDA x : x # MY_NODE_NUM)[i], 0>>]
    \o <<<<"Config", NODE_ZERO, 0>>, <<"ModuleConfig", NODE_ZERO, 0>>,
         <<"Channel", NODE_ZERO, 0>>, <<"ConfigComplete", NODE_ZERO, n>>>>

\* The messages written since the request being answered was taken.
SinceRequest == SubSeq(usb, fwd.start + 1, Len(usb))

\* C26: the messages written to the host since a request-config with id N was
\* taken are, as long as the answer is under way, the beginning of MyNodeInfo,
\* own NodeInfo, one NodeInfo per node of the database other than our own (in
\* the database's order, read under the guard), Config, ModuleConfig, Channel,
\* ConfigComplete(N), with nothing else in between; once the answer has run to
\* its end they begin with exactly this sequence.
C26_ConfigBurstInOrder ==
    LET exp == Answer(fwd.cfg, IF fwd.at = "peer" THEN nodes ELSE fwd.snap)
    IN /\ fwd.at \in {"my", "own"} =>
             /\ Len(SinceRequest) = (IF fwd.at = "my" THEN 0 ELSE 1)
             /\ \A i \in 1..Len(SinceRequest) : Carried(SinceRequest[i]) = exp[i]
       /\ fwd.at = "peer" =>
             /\ fwd.snap = nodes
             /\ Len(SinceRequest) = Len(exp) - 4 - Len(fwd.todo)
       /\ fwd.at \in {"peer", "config", "module", "channel", "complete"} =>
             /\ Len(SinceRequest) < Len(exp)
             /\ \A i \in 1..Len(SinceRequest) : Carried(SinceRequest[i]) = exp[i]
             /\ fwd.at = "complete" => Len(SinceRequest) = Len(exp) - 1
       /\ fwd.done =>
             /\ Len(SinceRequest) >= Len(exp)
             /\ \A i \in 1..Len(exp) : Carried(SinceRequest[i]) = exp[i]

\* The answer to request 9 ran to its end over a database of three nodes, our
\* own number among them: eight messages, the last one ConfigComplete(9), and
\* a forward of a bus packet had gone out before the request.
C26_Witness ==
    /\ fwd.at = "select"
    /\ fwd.done
    /\ fwd.cfg = 9
    /\ Len(fwd.snap) = 3
    /\ fwd.start = 1
    /\ Len(usb) = fwd.start + 8
    /\ usb[Len(usb)].kind = "ConfigComplete"
    /\ usb[Len(usb)].arg = 9
    /\ usb[3].kind = "NodeInfo"
    /\ usb[4].kind = "NodeInfo"
    /\ usb[4].num # MY_NODE_NUM

---------------------------------------------------------------------------
(* C28 *)

\* C28: at every suspension point of the tasks nobody holds the guard of the
\* node database, and the packet processor is not parked waiting for it.
C28_DbLockNotHeldAcrossAwait ==
    /\ db_guard = <<>>
    /\ proc = <<>>

---------------------------------------------------------------------------
(* C27 *)

\* C27: the packet handed to transmit_packet has hop_limit one less than the
\* packet as it was received, and the same hop_start.
C27_HopLimitDecremented ==
    inflight # <<>> =>
        /\ inflight[1].packet.packet_id = RoutingPkt.packet_id
        /\ inflight[1].packet.hop_limit = RoutingPkt.hop_limit - 1
        /\ inflight[1].packet.hop_start = RoutingPkt.hop_start

---------------------------------------------------------------------------
(* calculate_relay_delay over its inputs: a packet of every hop count is      *)
(* queued with every priority 0..127 at a sample of clock values.            *)

TimeSeeds == {0, 1, 700, 999, 12345, 3598000}

DelayPkts == {Packet(40 + hl, N1, NODE_BROADCAST, hl, 7, "TextMessageApp", FALSE) : hl \in 0..7}

Priorities == 0..PRIORITY_MAX

InitDelay ==
    /\ now \in TimeSeeds
    /\ pc = "wait"
    /\ pending = <<>>
    /\ recent = <<>>
    /\ duty = DutyCycleTrackerNew(0)
    /\ stats = StatsDefault
    /\ inflight = <<>>
    /\ rx = <<>>
    /\ lastq = <<>>
    /\ airlog = <<>>
    /\ radio = RadioStart
    /\ bus = <<>>
    /\ HostStart
    /\ SensorsNew

\* RelayState::queue_packet applied to p with the given priority.
QueuePacket(p, priority) ==
    /\ pending = <<>>
    /\ LET r == queue_packet(pending, recent, stats, p, packet_wants_ack(p), priority, now)
       IN /\ pending' = r.pending
          /\ recent' = r.recent
          /\ stats' = r.stats
    /\ lastq' = <<p>>
    /\ UNCHANGED <<now, pc, duty, inflight, rx, airlog>>
    /\ UNCHANGED rxvars
    /\ UNCHANGED hostvars
    /\ UNCHANGED telemetryvars

NextDelay == \E p \in DelayPkts, priority \in Priorities : QueuePacket(p, priority)

SpecDelay == InitDelay /\ [][NextDelay]_vars

---------------------------------------------------------------------------
(* C29 *)

\* floor((base + 50 h) (0.5 + (127 - p)/127 * 0.5)) = floor((base + 50 h)(254 - p)/254).
ClaimedAdjusted(h, p) ==
    (((IF RX_BOOST_ENABLED THEN 300 ELSE 200) + 50 * h) * (254 - p)) \div 254

\* C29: a queued entry has next_tx_time = queued_at + d with
\* adjusted <= d <= 3 * adjusted, where adjusted =
\* floor((base + 50 h)(0.5 + (127 - p)/127 * 0.5)), h = hop_start - hop_limit and
\* base = 300 ms with RX boost and 200 ms without; and for this h, no lower
\* priority has a smaller adjusted delay than p's and no higher one a greater.
C29_DelayWithinBounds ==
    \A i \in 1..Len(pending) :
        LET e == pending[i]
            h == e.packet.hop_start - e.packet.hop_limit
            total == (IF RX_BOOST_ENABLED THEN MAX_HOP_DELAY_MS ELSE MIN_HOP_DELAY_MS)
                     + h * HOP_PENALTY_MS
            adjusted == ClaimedAdjusted(h, e.priority)
            d == e.next_tx_time - e.queued_at
        IN /\ adjusted <= d
           /\ d <= 3 * adjusted
           /\ AdjustedDelay(total, e.priority) = adjusted
           /\ \A q \in Priorities :
                 /\ q <= e.priority => AdjustedDelay(total, q) >= adjusted
                 /\ q >= e.priority => AdjustedDelay(total, q) <= adjusted

\* A packet that came three hops was queued at clock value 0 with priority 127:
\* adjusted is 225 ms and the delay 393 ms.
C29_Witness ==
    /\ Len(pending) = 1
    /\ pending[1].priority = PRIORITY_MAX
    /\ pending[1].packet.hop_start - pending[1].packet.hop_limit = 3
    /\ pending[1].queued_at = 0
    /\ pending[1].next_tx_time = 393
    /\ ClaimedAdjusted(3, PRIORITY_MAX) = 225

---------------------------------------------------------------------------
(* C30 *)

\* C30: the jitter is not a function of the clock: whatever the packet and the
\* priority, queueing at one and the same clock value can end with two
\* different delays.
C30_JitterFromEntropy ==
    pending = <<>> =>
        \A p \in DelayPkts, priority \in {PRIORITY_DEFAULT, PRIORITY_ACK} :
            \E d \in 0..(3 * MAX_HOP_DELAY_MS + 21 * HOP_PENALTY_MS) :
                /\ ENABLED (QueuePacket(p, priority) /\ pending'[1].next_tx_time = now + d)
                /\ ENABLED (QueuePacket(p, priority) /\ pending'[1].next_tx_time # now + d)

---------------------------------------------------------------------------
(* C31 *)

\* The relay task takes from the bus a packet of our own node that carries the
\* id of the i-th pending entry, and the implicit ACK removes the entry.
AckRemoves(i) ==
    /\ RelayMessage(EnvMain)
    /\ rx'[1].pkt.source = OUR_NODE_ID
    /\ rx'[1].pkt.packet_id = pending[i].packet_id
    /\ \A j \in 1..Len(pending') : pending'[j].packet_id # pending[i].packet_id
    /\ stats'.implicit_acks = stats.implicit_acks + 1

\* C31 (as stated): whether the relay task waits in its select (entry Waiting
\* or Ready) or a transmission is in progress (Transmitting), an inbound packet
\* of our own node with a pending entry's id can remove that entry.
C31_AckInEveryState ==
    (pc \in {"wait", "tx"} /\ stats.packets_received < MaxReceived) =>
        \A i \in 1..Len(pending) : ENABLED AckRemoves(i)

\* C31 (amended): implicit-ACK removal can fire for every pending entry,
\* Waiting or Ready, whenever the relay task waits in its select; while a
\* transmission is in progress the task takes no packet from the bus, so no
\* implicit ACK fires before the outcome of the transmission is recorded.
C31_AckWhileWaiting ==
    /\ (pc = "wait" /\ stats.packets_received < MaxReceived) =>
          \A i \in 1..Len(pending) : ENABLED AckRemoves(i)
    /\ pc = "tx" =>
          /\ ~ENABLED RelayMessage(EnvMain)
          /\ \A i \in 1..Len(pending) : ~ENABLED AckRemoves(i)

\* The text message queued at 0 fell due at 446 ms; at 700 ms the relay task
\* took a copy sent by our own node and the implicit ACK removed the entry,
\* which was Ready and had not been transmitted.
C31_Witness ==
    /\ pc = "maint"
    /\ now = 700
    /\ rx # <<>>
    /\ rx[1].pkt.source = OUR_NODE_ID
    /\ rx[1].pkt.packet_id = 1
    /\ lastq # <<>>
    /\ lastq[1].packet_id = 1
    /\ pending = <<>>
    /\ stats.implicit_acks = 1
    /\ stats.packets_transmitted = 0

---------------------------------------------------------------------------
(* C32 *)

\* A step of trigger_retransmission that changed the state.
TriggerStep == pc' = pc /\ now' = now /\ pending' # pending

\* C32: for every id, trigger_retransmission returns true exactly when the
\* relay is initialized and the id has a pending entry; it then leaves a
\* pending map in which that entry has next_tx_time = now and is otherwise as
\* before, and every other entry is as before; for any other id it leaves the
\* map as it is.  A trigger step changes nothing but the pending map.
C32_TriggerFrame ==
    /\ [](\A id \in 0..3 :
             LET r == trigger_retransmission(pending, id, now)
                 held == \E i \in 1..Len(pending) : pending[i].packet_id = id
             IN /\ trigger_retransmission_returns(pc # "boot", pending, id) = held
                /\ Len(r) = Len(pending)
                /\ \A i \in 1..Len(pending) :
                      r[i] = IF pending[i].packet_id = id
                             THEN [pending[i] EXCEPT !.next_tx_time = now]
                             ELSE pending[i])
    /\ [][TriggerStep =>
             /\ UNCHANGED <<recent, duty, stats, inflight, rx, lastq, airlog>>
             /\ \E id \in 0..3 :
                   /\ trigger_retransmission_returns(TRUE, pending, id)
                   /\ pending' = trigger_retransmission(pending, id, now)]_vars

\* trigger_retransmission was called for the Routing packet after its first
\* transmission, while the text message was pending as well: the Routing entry
\* is due at once, its retry_count is still 1 and the other entry is as queued.
C32_Witness ==
    /\ pc = "wait"
    /\ Len(pending) = 2
    /\ \E i, j \in 1..2 :
          /\ pending[i].packet_id = 2
          /\ pending[i].retry_count = 1
          /\ pending[i].next_tx_time = now
          /\ pending[j].packet_id = 1
          /\ pending[j].retry_count = 0
          /\ pending[j].next_tx_time > now
    /\ stats.packets_transmitted = 1

---------------------------------------------------------------------------
(* PACKET_ID_COUNTER two calls before its wrap: the USB serial task forwards *)
(* packets of the bus, each drawing a packet id.                             *)

InitIds ==
    /\ now = 0
    /\ pc = "boot"
    /\ pending = <<>>
    /\ recent = <<>>
    /\ duty = DutyCycleTrackerNew(0)
    /\ stats = StatsDefault
    /\ inflight = <<>>
    /\ rx = <<>>
    /\ lastq = <<>>
    /\ airlog = <<>>
    /\ radio = RadioStart
    /\ fwd = ForwarderStart
    /\ usb = <<>>
    /\ nodes = <<>>
    /\ db_guard = <<>>
    /\ proc = <<>>
    /\ bus = <<>>
    /\ packet_id_counter = IdWrapStart
    /\ SensorsNew

NextIds == FwdBusMessage \/ FwdWritten \/ FwdDisconnected

SpecIds == InitIds /\ [][NextIds]_vars

---------------------------------------------------------------------------
(* C33 *)

---------------------------------------------------------------------------
(* C34 *)

\* The silent loop under the executor's guarantee that the relay task, when it
\* can run, is run.
SpecIdleFair == SpecIdle /\ WF_vars(NextIdle)

\* C34: with no further packet on the bus and the relay loop scheduled, no
\* entry stays pending for more than 60 000 ms plus one loop period, and the
\* pending set becomes empty and stays empty.
C34_PendingDrains ==
    /\ [](\A i \in 1..Len(pending) :
             now - pending[i].queued_at <= MAX_PACKET_AGE_MS + MAINTENANCE_MS + TX_SIM_MS)
    /\ <>[](pending = <<>>)

\* More than 60 s after the last packet the pending set is empty: entries were
\* transmitted, and the sweep expired what was left.
C34_Witness ==
    /\ pc = "wait"
    /\ now > MAX_PACKET_AGE_MS
    /\ pending = <<>>
    /\ stats.packets_queued = 2
    /\ stats.packets_expired >= 1
    /\ stats.packets_transmitted >= 1

---------------------------------------------------------------------------
(* The node four seconds into a busy minute: a Routing packet was queued at  *)
(* time 0 and transmitted once at 600 ms, so that its entry waits for its    *)
(* first retransmission; 29 or 30 text messages of other ids were queued and *)
(* transmitted since, and reset_relay_stats has been called since.           *)

OldPkt(i) == Packet(OldIds[i], N1, NODE_BROADCAST, 3, 3, "TextMessageApp", FALSE)

FreshPkt == Packet(300, N1, NODE_BROADCAST, 3, 3, "TextMessageApp", FALSE)

WindowStart == 4000
HorizonWindow == 6200

InitWindow ==
    /\ now = WindowStart
    /\ pc = "wait"
    /\ pending = handle_transmitted_packet(
                     <<NewPending(RoutingPkt, packet_wants_ack(RoutingPkt),
                                  get_packet_priority(RoutingPkt), 0)>>,
                     StatsDefault, RoutingPkt.packet_id, 600).pending
    /\ \E k \in {RECENT_QUEUE_N - 3, RECENT_QUEUE_N - 2} :
          /\ recent = <<RoutingPkt.packet_id>> \o SubSeq(OldIds, 1, k)
          /\ lastq = <<OldPkt(k)>>
          /\ duty = [total_airtime_ms |-> (k + 1) * PACKET_AIRTIME_MS, period_start |-> 0]
    /\ stats = StatsDefault
    /\ inflight = <<>>
    /\ rx = <<>>
    /\ airlog = <<>>
    /\ radio = RadioStart
    /\ bus = <<>>
    /\ HostStart
    /\ SensorsNew

EnvWindow ==
    [pkts |-> {FreshPkt, RoutingPkt}, dts |-> {0, 700}, cad |-> FALSE,
     txfail |-> FALSE, horizon |-> HorizonWindow, trace |-> FALSE]

NextWindow == RelayTask(EnvWindow) \/ TriggerRetransmission(EnvWindow)

SpecWindow == InitWindow /\ [][NextWindow]_vars

---------------------------------------------------------------------------
(* C35 *)

\* C35: the id of every pending entry is in the recent queue, and the message
\* branch never replaces an entry that is pending: an entry whose id is
\* pending before and after the branch keeps its queued_at and its
\* retry_count.
C35_PendingIsRecent ==
    /\ [](\A i \in 1..Len(pending) : is_recent_packet(recent, pending[i].packet_id))
    /\ [][MsgStep
          => \A i \in 1..Len(pending) :
                LET k == IndexOf(pending', pending[i].packet_id)
                IN k # 0 => /\ pending'[k].queued_at = pending[i].queued_at
                            /\ pending'[k].retry_count = pending[i].retry_count]_vars

---------------------------------------------------------------------------
(* C36 *)

\* C36: whenever handle_implicit_ack removes a pending entry, the packet
\* stored in the entry has the source of the inbound packet as well as its
\* packet_id.
C36_AckMatchesSource ==
    [][(MsgStep /\ stats'.implicit_acks = stats.implicit_acks + 1)
        => \A i \in 1..Len(pending) :
              pending[i].packet_id = rx'[1].pkt.packet_id
              => pending[i].packet.source = rx'[1].pkt.source]_vars

---------------------------------------------------------------------------
(* C37 *)

\* C37: the sweep never expires an entry that waits for a retransmission: an
\* entry that has been transmitted and is still pending (its next_tx_time was
\* taken from the retry table) is not removed as expired.
C37_RetryBeforeExpiry ==
    [][MaintStep
        => \A i \in 1..Len(pending) :
              (IsExpired(pending[i], now) /\ IndexOf(pending', pending[i].packet_id) = 0)
              => pending[i].retry_count = 0]_vars

---------------------------------------------------------------------------
(* C38 *)

\* C38: the wants_ack of every pending entry is the want_ack flag of the
\* header of its packet, and its max_retransmissions is the budget of the
\* port (4 for Routing, 2 for TextMessage, 3 otherwise) when the flag is set
\* and 0 when it is not.
C38_WantsAckFromHeader ==
    \A i \in 1..Len(pending) :
        LET e == pending[i]
        IN /\ e.wants_ack = e.packet.want_ack
           /\ e.max_retransmissions =
                 IF ~e.packet.want_ack THEN 0
                 ELSE IF e.packet.port = "RoutingApp" THEN NUM_ACK_RETX
                 ELSE IF e.packet.port = "TextMessageApp" THEN NUM_TEXT_RETX
                 ELSE NUM_RELIABLE_RETX

---------------------------------------------------------------------------
(* C39 *)

\* The steps of the other tasks (reset_relay_stats, trigger_retransmission)
\* while the relay task is suspended in transmit_packet.
DuringTx == pc = "tx" /\ pc' = "tx"

\* The entry of the packet being transmitted is pending throughout: the other
\* tasks' calls leave the ids of the pending map as they are.
EntryKept ==
    /\ [](pc = "tx" => contains_key(pending, inflight[1].packet_id))
    /\ [][DuringTx => PendingIds(pending') = PendingIds(pending)]_vars

\* A transmission that succeeded: the task is back in its loop and nothing
\* was counted as dropped.
TxSucceeded == TxStep /\ stats'.packets_dropped = stats.packets_dropped

\* C39 as stated: the entry of the transmitted packet stays pending during the
\* transmission, and each successful transmission adds 1 to
\* packets_transmitted and the packet's airtime estimate to the recorded
\* airtime.
C39_TransmissionCounted ==
    /\ EntryKept
    /\ [][TxSucceeded
          => /\ stats'.packets_transmitted = stats.packets_transmitted + 1
             /\ duty'.total_airtime_ms =
                   duty.total_airtime_ms + inflight[1].airtime]_vars

\* C39, amended: the entry of the transmitted packet stays pending during the
\* transmission, and each successful transmission adds 1 to
\* packets_transmitted and the packet's airtime estimate to the airtime
\* recorded for the current period, which is counted from 0 when the period
\* of the tracker has ended by the time the outcome is recorded.
C39_TransmissionCountedInPeriod ==
    /\ EntryKept
    /\ [][TxSucceeded
          => /\ stats'.packets_transmitted = stats.packets_transmitted + 1
             /\ inflight[1].airtime = calculate_packet_airtime(inflight[1].packet)
             /\ duty'.total_airtime_ms =
                   (IF now' - duty.period_start >= PERIOD_LENGTH_SECS * 1000
                    THEN 0 ELSE duty.total_airtime_ms) + inflight[1].airtime
             /\ duty'.period_start =
                   IF now' - duty.period_start >= PERIOD_LENGTH_SECS * 1000
                   THEN now' ELSE duty.period_start]_vars

\* A transmission was recorded after the end of the period while its entry
\* stayed pending, and reset_relay_stats ran after the packets were received.
C39_Witness ==
    /\ pc = "wait"
    /\ duty.period_start > 0
    /\ duty.total_airtime_ms = PACKET_AIRTIME_MS
    /\ stats.packets_received = 0
    /\ stats.packets_transmitted = 1
    /\ \E i \in 1..Len(pending) : pending[i].retry_count = 1

---------------------------------------------------------------------------
(* The list of sensors of the telemetry crate *)

\* Sensors::add.
add(list, device) == Append(list, device)

\* Sensors::get_metrics on the list and the index: the outcomes the call can
\* have, each with the index it leaves, the position (from 0) of the sensor it
\* queried, if any, and whether the call panicked.  `last` is len() - 1 in
\* usize: with no sensor the subtraction panics in a build with overflow
\* checks, and wraps to usize::MAX in a build without, where get_mut then finds
\* nothing and the call returns None.
get_metrics(list, i) ==
    IF Len(list) = 0
    THEN {[idx |-> i, queried |-> <<>>, fault |-> TRUE],
          [idx |-> i, queried |-> <<>>, fault |-> FALSE]}
    ELSE LET last == Len(list) - 1
         IN IF i < Len(list)
            THEN {[idx |-> IF i = last THEN 0 ELSE i + 1,
                   queried |-> <<i>>, fault |-> FALSE]}
            ELSE {[idx |-> i, queried |-> <<>>, fault |-> FALSE]}

Devices == {"scd30", "bme280"}

MaxSensors == 3
MaxCalls == 5

\* The task that owns the list has not panicked.
Alive == \A k \in 1..Len(metrics) : ~metrics[k].fault

SensorsAdd ==
    /\ Alive
    /\ Len(sensors) < MaxSensors
    /\ \E device \in Devices : sensors' = add(sensors, device)
    /\ UNCHANGED <<idx, metrics>>
    /\ UNCHANGED relayvars
    /\ UNCHANGED rxvars
    /\ UNCHANGED hostvars

SensorsGetMetrics ==
    /\ Alive
    /\ Len(metrics) < MaxCalls
    /\ \E r \in get_metrics(sensors, idx) :
          /\ idx' = r.idx
          /\ metrics' = Append(metrics, [n |-> Len(sensors), queried |-> r.queried,
                                         fault |-> r.fault])
    /\ UNCHANGED sensors
    /\ UNCHANGED relayvars
    /\ UNCHANGED rxvars
    /\ UNCHANGED hostvars

NextSensors == SensorsAdd \/ SensorsGetMetrics

SpecSensors == Init /\ [][NextSensors]_vars

---------------------------------------------------------------------------
(* C40 *)

\* C40: no call of Sensors::get_metrics faults; a call with no sensor
\* registered returns None, and while the n >= 1 sensors registered stay the
\* same, the k-th call (from 0) queries sensor k mod n.
C40_RoundRobin ==
    \A k \in 1..Len(metrics) :
        /\ ~metrics[k].fault
        /\ metrics[k].n = 0 => metrics[k].queried = <<>>
        /\ (metrics[k].n >= 1 /\ \A j \in 1..k : metrics[j].n = metrics[k].n)
           => metrics[k].queried = <<(k - 1) % metrics[k].n>>

=============================================================================
